---- MODULE Spec2Model ----
(***************************************************************************)
(* A model of the Scarab interpreter core (libscarab): the value model,    *)
(* the scope chain, the execution context and the evaluator with its       *)
(* builtin functions.  kh_eval and kh_apply are written as recursive       *)
(* operators that thread the interpreter state `st` and return a record    *)
(* [st, ret]; ret = NULL is the C NULL "no value" result.  Every kh_eval,  *)
(* kh_apply, native call, body entry and kh_scope_add of one top-level     *)
(* call is recorded in st.log so that properties of nested evaluations     *)
(* can be stated over the finished call.                                   *)
(***************************************************************************)
EXTENDS Integers, Sequences, FiniteSets, TLC

VARIABLES core_init_done, scopes, ctxs, next_id, dead, last, nsteps,
          symbols, interned, cells, tokenizer

vars == <<core_init_done, scopes, ctxs, next_id, dead, last, nsteps,
          symbols, interned, cells, tokenizer>>

\* ---------------------------------------------------------------- bounds
MaxSteps == 4
MaxCtx == 2
MaxDepth == 12
MaxSymbols == 5

\* Width of C `long` and `int` in the model (scaled down from 64 and 32).
LONG_BITS == 12
INT_BITS == 6

Pow2(n) == IF n = 0 THEN 1 ELSE IF n = 1 THEN 2 ELSE IF n = 2 THEN 4 ELSE IF n = 3 THEN 8
           ELSE IF n = 4 THEN 16 ELSE IF n = 5 THEN 32 ELSE IF n = 6 THEN 64
           ELSE IF n = 7 THEN 128 ELSE IF n = 8 THEN 256 ELSE IF n = 9 THEN 512
           ELSE IF n = 10 THEN 1024 ELSE IF n = 11 THEN 2048 ELSE IF n = 12 THEN 4096
           ELSE 8192

LONG_MAX == Pow2(LONG_BITS - 1) - 1

\* Conversion of a value to C `int` (two's complement wrap).
ToInt(x) ==
  LET m == Pow2(INT_BITS)
      r == x % m
  IN IF r >= m \div 2 THEN r - m ELSE r

\* ---------------------------------------------------------------- values
\* The C NULL pointer, used as "no value".
NULL == [type |-> "NULL"]

kh_nil == [type |-> "nil"]

kh_int_new(val) == [type |-> "int", value |-> val]

kh_string_new(val) == [type |-> "string", text |-> val]

kh_symbol_new(val) == [type |-> "symbol", name |-> val]

kh_cell_new(left, right) == [type |-> "cell", left |-> left, right |-> right]

kh_quoted_new(val) == [type |-> "quoted", quoted |-> val]

kh_func_new(name, form, min_argc, max_argc, argnames, scope, is_direct) ==
  [type |-> "func", name |-> name, form |-> form, scope |-> scope,
   min_argc |-> min_argc, max_argc |-> max_argc, argnames |-> argnames,
   c_func |-> "", is_direct |-> is_direct]

kh_func_new_c(name, c_func, min_argc, max_argc, is_direct) ==
  [type |-> "func", name |-> name, form |-> NULL, scope |-> 0,
   min_argc |-> min_argc, max_argc |-> max_argc, argnames |-> <<>>,
   c_func |-> c_func, is_direct |-> is_direct]

KH_IS_CELL(val) == val.type = "cell"
KH_IS_FUNC(val) == val.type = "func"
KH_IS_NIL(val) == val.type = "nil"

\* ----------------------------------------------------------------- lists
\* Result of kh_list_length when a checked cast inside KH_ITERATE fails.
ASSERT_FAIL == -1

RECURSIVE kh_list_length(_)
kh_list_length(list) ==
  IF list = kh_nil THEN 0
  ELSE IF ~KH_IS_CELL(list) THEN ASSERT_FAIL
  ELSE LET n == kh_list_length(list.right)
       IN IF n = ASSERT_FAIL THEN ASSERT_FAIL ELSE n + 1

\* The elements visited by KH_ITERATE over a proper list, as a sequence.
RECURSIVE KH_ITERATE(_)
KH_ITERATE(list) ==
  IF list = kh_nil \/ ~KH_IS_CELL(list) THEN <<>>
  ELSE <<list.left>> \o KH_ITERATE(list.right)

\* The proper list with the elements of a sequence (what the parser builds).
RECURSIVE ListOf(_)
ListOf(seq) ==
  IF seq = <<>> THEN kh_nil ELSE kh_cell_new(Head(seq), ListOf(Tail(seq)))

\* --------------------------------------------------------------- inspect
RECURSIVE g_strescape(_)
g_strescape(s) ==
  IF Len(s) = 0 THEN ""
  ELSE LET c == SubSeq(s, 1, 1)
           e == IF c = "\"" THEN "\\\""
                ELSE IF c = "\\" THEN "\\\\"
                ELSE IF c = "\n" THEN "\\n"
                ELSE IF c = "\t" THEN "\\t"
                ELSE IF c = "\r" THEN "\\r"
                ELSE IF c = "\f" THEN "\\f"
                ELSE c
       IN e \o g_strescape(SubSeq(s, 2, Len(s)))

RECURSIVE _inspect(_)
RECURSIVE _inspect_cell(_, _)
_inspect_cell(cell, in_cell) ==
  (IF in_cell THEN "" ELSE "(")
  \o (IF KH_IS_CELL(cell.right)
        THEN _inspect(cell.left) \o " " \o _inspect_cell(cell.right, TRUE)
      ELSE IF cell.right = kh_nil
        THEN _inspect(cell.left)
      ELSE _inspect(cell.left) \o " . " \o _inspect(cell.right))
  \o (IF in_cell THEN "" ELSE ")")

_inspect(value) ==
  CASE value.type = "nil" -> "nil"
    [] value.type = "int" -> ToString(value.value)
    [] value.type = "string" -> "\"" \o g_strescape(value.text) \o "\""
    [] value.type = "cell" -> _inspect_cell(value, FALSE)
    [] value.type = "symbol" -> value.name
    [] value.type = "func" -> "*function \"" \o value.name \o "\"*"
    [] value.type = "quoted" -> "(quote " \o _inspect(value.quoted) \o ")"
    [] OTHER -> ""

kh_inspect(value) == _inspect(value)

\* ---------------------------------------------------------------- scopes
\* A scope is [parent, table]; parent = 0 is the NULL parent.  `sc` is the
\* heap of all scopes, a scope's address is its index.
EmptyTable == <<>>

kh_scope_new(sc, parent) == Append(sc, [parent |-> parent, table |-> EmptyTable])

\* kh_scope_add that writes the entry into the outermost scope of the chain.
RECURSIVE kh_scope_add_outermost(_, _, _, _)
kh_scope_add_outermost(sc, scope, name, val) ==
  IF sc[scope].parent = 0
  THEN [sc EXCEPT ![scope].table = (name :> val) @@ sc[scope].table]
  ELSE kh_scope_add_outermost(sc, sc[scope].parent, name, val)

\* g_hash_table_replace: inserts or overwrites the entry of `name` in `scope`.
kh_scope_add(sc, scope, name, val) ==
  [sc EXCEPT ![scope].table = (name :> val) @@ sc[scope].table]

\* g_hash_table_lookup: NULL when the key is absent (or maps to NULL).
g_hash_table_lookup(table, name) ==
  IF name \in DOMAIN table THEN table[name] ELSE NULL

\* kh_scope_lookup without the walk up the parents: only the table of the
\* scope itself is searched.
kh_scope_lookup_own(sc, scope, name) ==
  IF scope = 0 THEN NULL
  ELSE g_hash_table_lookup(sc[scope].table, name)

\* kh_scope_lookup walking from the outermost scope inwards: the outermost
\* binding wins.
RECURSIVE kh_scope_lookup_outer(_, _, _)
kh_scope_lookup_outer(sc, scope, name) ==
  IF scope = 0 THEN NULL
  ELSE LET value == kh_scope_lookup_outer(sc, sc[scope].parent, name)
       IN IF value # NULL THEN value
          ELSE g_hash_table_lookup(sc[scope].table, name)

RECURSIVE kh_scope_lookup(_, _, _)
kh_scope_lookup(sc, scope, name) ==
  IF scope = 0 THEN NULL
  ELSE LET value == g_hash_table_lookup(sc[scope].table, name)
       IN IF value # NULL THEN value
          ELSE kh_scope_lookup(sc, sc[scope].parent, name)

\* --------------------------------------------------------------- records
\* A record type is identified by its address `id` (two types with the same
\* keys are different types).
kh_record_type_new(id, keys) == [type |-> "record-type", id |-> id, keys |-> keys]

kh_record_type_get_num_keys(rtype) == Len(rtype.keys)

\* values[i] copied while values[i] is non-NULL and i < num_keys, the rest nil.
kh_record_new_from_values(rtype, values) ==
  [type |-> "record", rtype |-> rtype,
   values |-> [i \in 1..Len(rtype.keys) |->
                 IF \A j \in 1..i : j <= Len(values) /\ values[j] # NULL
                 THEN values[i] ELSE kh_nil]]

\* kh_record_new: key i of the type takes the value of the first supplied key
\* of the same name, nil when there is none.
kh_record_new(rtype, keys, values) ==
  [type |-> "record", rtype |-> rtype,
   values |-> [i \in 1..Len(rtype.keys) |->
                 LET hits == {j \in 1..Len(keys) : keys[j] = rtype.keys[i]}
                 IN IF hits = {} THEN kh_nil
                    ELSE values[CHOOSE j \in hits : \A k \in hits : j <= k]]]

\* kh_record_set: the first key equal to `key` takes the value; ok is the
\* bool returned, record is the record afterwards.
kh_record_set(record, key, value) ==
  LET keys == record.rtype.keys
      hits == {i \in 1..Len(keys) : keys[i] = key}
  IN IF hits = {} THEN [ok |-> FALSE, record |-> record]
     ELSE [ok |-> TRUE,
           record |-> [record EXCEPT
                         !.values[CHOOSE i \in hits : \A j \in hits : i <= j] = value]]

\* The first key equal to `key` decides; NULL when there is none.
kh_record_get(record, key) ==
  LET keys == record.rtype.keys
      hits == {i \in 1..Len(keys) : keys[i] = key}
  IN IF hits = {} THEN NULL
     ELSE record.values[CHOOSE i \in hits : \A j \in hits : i <= j]

KH_IS_RECORD(val) == val.type = "record"

\* KH_VALUE_TYPE(val): the type word of a value, the key of the method table.
\* For a record it is the address of its record type, otherwise the enum
\* constant of the basic type cast to a pointer.
KH_VALUE_TYPE(val) ==
  IF val.type = "record" THEN val.rtype ELSE [type |-> "basic-type", tag |-> val.type]

\* -------------------------------------------------- interpreter state
\* st = the heap of scopes plus the fields of the context being run:
\*   scope (ctx->scope), error (ctx->error), methods (the method table),
\*   dead ("" while the process runs, else why it died), out (stdout),
\*   next_id (next record-type address), log (the events of this call).
\* An event is one of
\*   "eval"   kh_eval entered: form, the current scope, for a symbol the heap
\*   "ret"    kh_eval returned: form, val (NULL = no value), the current
\*            scope, ctx->error, for a symbol the heap
\*   "apply"  kh_apply entered: val = the function, argv as passed
\*   "native" the native function is called: argv as it receives them
\*   "body"   a Scarab function's scope is current and bound, its body is
\*            about to be evaluated: scope = the function scope, the heap
\*   "enter"  let made its scope current: scope = the let scope, the heap
\*   "add"    kh_scope_add(scope, fn, val), the heap before the call
\*   "lookup" kh_method_lookup(ctx, argv[1], fn) gave val (NULL = none);
\*            snap is the method table
\* d is the nesting depth of the kh_eval that the event belongs to.
Ev(k, d, form, scope, val, fn, argv, snap) ==
  [k |-> k, d |-> d, form |-> form, scope |-> scope, val |-> val,
   fn |-> fn, argv |-> argv, snap |-> snap, err |-> NULL]

Log(st, ev) == [st EXCEPT !.log = Append(@, ev)]

kh_context_get_scope(st) == st.scope

kh_context_set_scope(st, scope) == [st EXCEPT !.scope = scope]

\* kh_context_new_scope: a new child of the current scope (not made current).
kh_context_new_scope(st) == [st EXCEPT !.scopes = kh_scope_new(@, st.scope)]

kh_context_push_scope(st) ==
  kh_context_set_scope(kh_context_new_scope(st), Len(st.scopes) + 1)

\* g_assert(scope->parent != NULL), then the parent becomes current.
kh_context_pop_scope(st) ==
  IF st.scopes[st.scope].parent = 0 THEN [st EXCEPT !.dead = "assert"]
  ELSE kh_context_set_scope(st, st.scopes[st.scope].parent)

kh_set_error(st, error) == [st EXCEPT !.error = error]

\* KH_ERROR that hands kh_set_error the message alone, without the list.
KH_ERROR_bare(st, kind, msg) == kh_set_error(st, kh_string_new(msg))

\* KH_ERROR: the error value is the list (kind-symbol "message").
KH_ERROR(st, kind, msg) ==
  kh_set_error(st, kh_cell_new(kh_symbol_new(kind),
                               kh_cell_new(kh_string_new(msg), kh_nil)))

\* KH_FAIL: set the error and return NULL.
KH_FAIL(st, kind, msg) == [st |-> KH_ERROR(st, kind, msg), ret |-> NULL]

\* A failed assert() or abort(): the process ends, nothing is returned.
Abort(st) == [st |-> [st EXCEPT !.dead = "assert"], ret |-> NULL]

\* The C stack is exhausted by unbounded recursion.
StackOverflow(st) == [st |-> [st EXCEPT !.dead = "stack"], ret |-> NULL]

\* A wild pointer is dereferenced.
Crash(st) == [st |-> [st EXCEPT !.dead = "segv"], ret |-> NULL]

Return(st, val) == [st |-> st, ret |-> val]

\* kh_scope_add on the state, recorded in the log.
ScopeAdd(st, scope, name, val, d) ==
  Log([st EXCEPT !.scopes = kh_scope_add(@, scope, name, val)],
      Ev("add", d, NULL, scope, val, name, <<>>, st.scopes))

\* The method table (declared in eval.h, defined outside the files at hand).
kh_method_add(st, type, name, func) ==
  [st EXCEPT !.methods = (<<type, name>> :> func) @@ @]

kh_method_lookup(st, type, name) ==
  IF <<type, name>> \in DOMAIN st.methods THEN st.methods[<<type, name>>] ELSE NULL

\* The atomicity predicate (declared in eval.h, defined outside the files at hand).
kh_is_atom(value) ==
  value.type \in {"nil", "int", "string", "func", "record-type", "record", "quoted"}

\* ------------------------------------------------------------- evaluator
RECURSIVE kh_eval(_, _, _)
RECURSIVE kh_apply(_, _, _, _, _)
RECURSIVE apply_args(_, _, _, _)
RECURSIVE c_func(_, _, _, _, _)
RECURSIVE let_bindings(_, _, _, _)

\* apply_args with the loop bound off by one: the last argument is passed on
\* as written.
RECURSIVE apply_args_short(_, _, _, _)
apply_args_short(st, argv, i, d) ==
  IF i >= Len(argv) THEN [st |-> st, ok |-> TRUE, argv |-> argv]
  ELSE LET r == kh_eval(st, argv[i], d + 1)
       IN IF r.ret = NULL THEN [st |-> r.st, ok |-> FALSE, argv |-> argv]
          ELSE apply_args_short(r.st, [argv EXCEPT ![i] = r.ret], i + 1, d)

\* apply_args with the check moved behind the loop: every argument is
\* evaluated, then the call fails if one of them gave no value.
RECURSIVE apply_args_late(_, _, _, _)
apply_args_late(st, argv, i, d) ==
  IF i > Len(argv)
  THEN [st |-> st, ok |-> \A j \in 1..Len(argv) : argv[j] # NULL, argv |-> argv]
  ELSE LET r == kh_eval(st, argv[i], d + 1)
       IN apply_args_late(r.st, [argv EXCEPT ![i] = r.ret], i + 1, d)

\* eval.c:354-357, the loop that evaluates the arguments in place; ok is
\* FALSE when _REQUIRE(argv[i]) returned.
apply_args(st, argv, i, d) ==
  IF i > Len(argv) THEN [st |-> st, ok |-> TRUE, argv |-> argv]
  ELSE LET r == kh_eval(st, argv[i], d + 1)
       IN IF r.ret = NULL THEN [st |-> r.st, ok |-> FALSE, argv |-> argv]
          ELSE apply_args(r.st, [argv EXCEPT ![i] = r.ret], i + 1, d)

\* The message of the invalid-call error, by the shape of the arity range.
invalid_call_msg(func, argc) ==
  "Called " \o func.name \o " with " \o ToString(argc) \o " arguments, expected "
  \o (IF func.max_argc = LONG_MAX THEN ToString(func.min_argc) \o " or more"
      ELSE IF func.min_argc = func.max_argc THEN ToString(func.min_argc)
      ELSE "between " \o ToString(func.min_argc) \o " and " \o ToString(func.max_argc))

\* arity_fail that sets the error but hands back nil instead of NULL.
arity_fail_nil(st, func, argc) ==
  Return(KH_ERROR(st, "invalid-call", invalid_call_msg(func, argc)), kh_nil)

\* eval.c:361-371, the failure of the argument count check.
arity_fail(st, func, argc) ==
  KH_FAIL(st, "invalid-call", invalid_call_msg(func, argc))

\* eval.c:387-389, binding the argument values in the function's scope.
RECURSIVE bind_args(_, _, _, _, _, _)
bind_args(st, func_scope, argnames, argv, i, d) ==
  IF i > Len(argv) THEN st
  ELSE bind_args(ScopeAdd(st, func_scope, argnames[i], argv[i], d),
                 func_scope, argnames, argv, i + 1, d)

\* The part of kh_apply that runs a Scarab function (eval.c:377-397).
apply_form(st, func, argc, argv, d) ==
  LET prev_scope == kh_context_get_scope(st)
      func_scope == Len(st.scopes) + 1
      s1 == kh_context_set_scope([st EXCEPT !.scopes = kh_scope_new(@, func.scope)],
                                 func_scope)
      s2 == bind_args(s1, func_scope, func.argnames, argv, 1, d)
      s3 == Log(s2, Ev("body", d, func.form, func_scope, func, func.name, argv, s2.scopes))
      r == kh_eval(s3, func.form, d + 1)
  IN IF r.ret = NULL THEN r
     ELSE Return(kh_context_set_scope(r.st, prev_scope), r.ret)

kh_apply(st, func, argc, argv, d) ==
  LET s0 == Log(st, Ev("apply", d, NULL, st.scope, func, func.name, argv, <<>>))
      a == IF ~func.is_direct THEN apply_args(s0, argv, 1, d)
           ELSE [st |-> s0, ok |-> TRUE, argv |-> argv]
  IN IF ~a.ok THEN Return(a.st, NULL)
     ELSE IF argc < func.min_argc \/ argc > func.max_argc
       THEN arity_fail(a.st, func, argc)
     ELSE IF func.c_func # ""
       THEN c_func(Log(a.st, Ev("native", d, NULL, a.st.scope, func, func.name, a.argv, <<>>)),
                   func.c_func, argc, a.argv, d)
     ELSE apply_form(a.st, func, argc, a.argv, d)

\* eval_cell without the test of the form's length: a head that is not a
\* function is returned whatever follows it.
eval_cell_anylen(st, form, d) ==
  LET h == kh_eval(st, form.left, d + 1)
      head == h.ret
      form_len == kh_list_length(form)
  IN IF head = NULL THEN h
     ELSE IF form_len = ASSERT_FAIL THEN Abort(h.st)
     ELSE IF ~KH_IS_FUNC(head) THEN Return(h.st, head)
     ELSE kh_apply(h.st, head, form_len - 1, KH_ITERATE(form.right), d)

\* The cell case of kh_eval (eval.c:322-348).
eval_cell(st, form, d) ==
  LET h == kh_eval(st, form.left, d + 1)
      head == h.ret
      form_len == kh_list_length(form)
  IN IF head = NULL THEN h
     ELSE IF form_len = ASSERT_FAIL THEN Abort(h.st)
     ELSE IF ~KH_IS_FUNC(head)
       THEN IF form_len = 1 THEN Return(h.st, head)
            ELSE KH_FAIL(h.st, "not-func",
                         "Tried to evaluate " \o kh_inspect(head) \o " as a function")
     ELSE kh_apply(h.st, head, form_len - 1, KH_ITERATE(form.right), d)

\* eval_switch without `case KH_RECORD` (KH_THING): a record is taken for a
\* cell.
eval_switch_norecord(st, form, d) ==
  CASE form.type \in {"nil", "int", "string", "func", "record-type"} ->
         Return(st, form)
    [] form.type = "symbol" ->
         LET value == kh_scope_lookup(st.scopes, st.scope, form.name)
         IN IF value = NULL THEN KH_FAIL(st, "undefined-variable", form.name)
            ELSE Return(st, value)
    [] form.type = "quoted" -> Return(st, form.quoted)
    [] form.type = "cell" -> eval_cell(st, form, d)
    [] OTHER -> Crash(st)

\* The switch of kh_eval (eval.c:292-317).
eval_switch(st, form, d) ==
  CASE form.type \in {"nil", "int", "string", "func", "record-type", "record"} ->
         Return(st, form)
    [] form.type = "symbol" ->
         LET value == kh_scope_lookup(st.scopes, st.scope, form.name)
         IN IF value = NULL THEN KH_FAIL(st, "undefined-variable", form.name)
            ELSE Return(st, value)
    [] form.type = "quoted" -> Return(st, form.quoted)
    [] form.type = "cell" -> eval_cell(st, form, d)
    [] OTHER -> Crash(st)

kh_eval(st, form, d) ==
  IF st.dead # "" THEN Return(st, NULL)
  ELSE IF d > MaxDepth THEN StackOverflow(st)
  ELSE LET s0 == Log(st, Ev("eval", d, form, st.scope, NULL, "", <<>>,
                            IF form.type = "symbol" THEN st.scopes ELSE <<>>))
           r == eval_switch(s0, form, d)
           v == IF r.st.dead # "" THEN NULL ELSE r.ret
       IN Return(Log(r.st, [Ev("ret", d, form, r.st.scope, v, "", <<>>,
                                IF form.type = "symbol" THEN r.st.scopes ELSE <<>>)
                             EXCEPT !.err = r.st.error]), v)

\* -------------------------------------------------------------- builtins
\* _extract_symbol_list: the names of a list of symbols; ok is FALSE when a
\* checked cast fails (the list is not a proper list or an element is not a
\* symbol).
_extract_symbol_list(str_list) ==
  LET elems == KH_ITERATE(str_list)
  IN IF kh_list_length(str_list) = ASSERT_FAIL
        \/ \E i \in 1..Len(elems) : elems[i].type # "symbol"
     THEN [ok |-> FALSE, strings |-> <<>>]
     ELSE [ok |-> TRUE, strings |-> [i \in 1..Len(elems) |-> elems[i].name]]

\* _create_func: the function captures the scope that is current now.
_create_func(st, name, arg_desc, form, is_direct) ==
  LET l == _extract_symbol_list(arg_desc)
  IN kh_func_new(name, form, Len(l.strings), Len(l.strings), l.strings,
                 kh_context_get_scope(st), is_direct)

\* argv[i] of the C array (0-based); reading past the array yields whatever
\* the stack holds there (st.uninit) and is recorded.
Argv(st, argv, i) == IF i + 1 <= Len(argv) THEN argv[i + 1] ELSE st.uninit

RECURSIVE SumInts(_, _, _)
SumInts(argv, i, result) ==
  IF i > Len(argv) THEN result
  ELSE SumInts(argv, i + 1, ToInt(result + argv[i].value))

\* `+`: int result = 0; result += KH_INT(argv[i])->value
add(st, argc, argv, d) ==
  IF \E i \in 1..Len(argv) : argv[i].type # "int" THEN Abort(st)
  ELSE Return(st, kh_int_new(SumInts(argv, 1, 0)))

atom(st, argc, argv, d) ==
  Return(st, IF kh_is_atom(argv[1]) THEN kh_int_new(1) ELSE kh_nil)

\* `=` without _REQUIRE(value): the result is bound whether or not the
\* evaluation gave one.
set_unchecked(st, argc, argv, d) ==
  LET r == kh_eval(st, argv[2], d + 1)
  IN IF argv[1].type # "symbol" THEN Abort(r.st)
     ELSE Return(ScopeAdd(r.st, kh_context_get_scope(r.st), argv[1].name, r.ret, d), kh_nil)

\* `=`: evaluate the value, then bind it in the current scope.
set(st, argc, argv, d) ==
  LET r == kh_eval(st, argv[2], d + 1)
  IN IF r.ret = NULL THEN r
     ELSE IF argv[1].type # "symbol" THEN Abort(r.st)
     ELSE Return(ScopeAdd(r.st, kh_context_get_scope(r.st), argv[1].name, r.ret, d), kh_nil)

\* `@`: evaluate self, look the method up by the type of the value, apply it
\* to the quoted value followed by the remaining arguments.
\* call_method that hands the method the self value as it is, unquoted.
call_method_unquoted(st, argc, argv, d) ==
  LET r == kh_eval(st, argv[1], d + 1)
  IN IF r.ret = NULL THEN r
     ELSE IF argv[2].type # "symbol" THEN Abort(r.st)
     ELSE LET method == kh_method_lookup(r.st, KH_VALUE_TYPE(r.ret), argv[2].name)
              call_argv == <<r.ret>> \o SubSeq(argv, 3, Len(argv))
              s1 == Log(r.st, Ev("lookup", d, NULL, r.st.scope, method, argv[2].name,
                                 <<KH_VALUE_TYPE(r.ret)>>, r.st.methods))
          IN IF method = NULL THEN KH_FAIL(s1, "undefined-method", argv[2].name)
             ELSE kh_apply(s1, method, argc - 1, call_argv, d + 1)

call_method(st, argc, argv, d) ==
  LET r == kh_eval(st, argv[1], d + 1)
  IN IF r.ret = NULL THEN r
     ELSE IF argv[2].type # "symbol" THEN Abort(r.st)
     ELSE LET method == kh_method_lookup(r.st, KH_VALUE_TYPE(r.ret), argv[2].name)
              call_argv == <<kh_quoted_new(r.ret)>> \o SubSeq(argv, 3, Len(argv))
              s1 == Log(r.st, Ev("lookup", d, NULL, r.st.scope, method, argv[2].name,
                                 <<KH_VALUE_TYPE(r.ret)>>, r.st.methods))
          IN IF method = NULL THEN KH_FAIL(s1, "undefined-method", argv[2].name)
             ELSE kh_apply(s1, method, argc - 1, call_argv, d + 1)

def_any(st, argc, argv, d, is_direct) ==
  IF argv[1].type # "symbol" \/ ~_extract_symbol_list(argv[2]).ok THEN Abort(st)
  ELSE Return(ScopeAdd(st, kh_context_get_scope(st), argv[1].name,
                       _create_func(st, argv[1].name, argv[2], argv[3], is_direct), d),
              kh_nil)

def(st, argc, argv, d) == def_any(st, argc, argv, d, FALSE)

def_direct(st, argc, argv, d) == def_any(st, argc, argv, d, TRUE)

\* def-method reads argv[3] although it is registered with 3 arguments.
def_method(st, argc, argv, d) ==
  LET r == kh_eval(st, argv[1], d + 1)
      s1 == IF argc < 4 THEN [r.st EXCEPT !.used_uninit = TRUE] ELSE r.st
  IN IF r.ret = NULL THEN r
     ELSE IF argv[2].type # "symbol" \/ ~_extract_symbol_list(argv[3]).ok THEN Abort(r.st)
     ELSE Return(kh_method_add(s1, r.ret, argv[2].name,
                               _create_func(s1, argv[2].name, argv[3], Argv(s1, argv, 3), FALSE)),
                 kh_nil)

eval(st, argc, argv, d) == kh_eval(st, argv[1], d + 1)

first(st, argc, argv, d) ==
  IF ~KH_IS_CELL(argv[1]) THEN Abort(st) ELSE Return(st, argv[1].left)

get_key(st, argc, argv, d) ==
  LET r == kh_eval(st, argv[1], d + 1)
  IN IF r.ret = NULL THEN r
     ELSE IF ~KH_IS_RECORD(r.ret) \/ argv[2].type # "string" THEN Abort(r.st)
     ELSE LET value == kh_record_get(r.ret, argv[2].text)
          IN IF value = NULL
             THEN KH_FAIL(r.st, "unknown-key", "No such key " \o argv[2].text \o " in record")
             ELSE Return(r.st, value)

inspect(st, argc, argv, d) == Return(st, kh_string_new(kh_inspect(argv[1])))

lambda(st, argc, argv, d) ==
  IF ~_extract_symbol_list(argv[1]).ok THEN Abort(st)
  ELSE Return(st, _create_func(st, "*lambda*", argv[1], argv[2], FALSE))

\* The KH_ITERATE loop of let (builtins.c:211-213): each value expression is
\* evaluated with the scope that is current at that point, its result is
\* added to let_scope unchecked.
let_bindings(st, let_scope, elems, d) ==
  IF elems = <<>> \/ st.dead # "" THEN st
  ELSE LET elem == Head(elems)
       IN IF ~KH_IS_CELL(elem) THEN Abort(st).st
          ELSE IF elem.left.type # "string" \/ ~KH_IS_CELL(elem.right) THEN Abort(st).st
          ELSE LET r == kh_eval(st, elem.right.left, d + 1)
               IN IF r.st.dead # "" THEN r.st
                  ELSE let_bindings(ScopeAdd(r.st, let_scope, elem.left.text, r.ret, d),
                                    let_scope, Tail(elems), d)

let(st, argc, argv, d) ==
  LET let_scope == Len(st.scopes) + 1
      s1 == kh_context_new_scope(st)
      s2 == IF kh_list_length(argv[1]) = ASSERT_FAIL THEN Abort(s1).st
            ELSE let_bindings(s1, let_scope, KH_ITERATE(argv[1]), d)
      s3 == Log(kh_context_set_scope(s2, let_scope),
                Ev("enter", d, argv[2], let_scope, NULL, "let", <<>>, s2.scopes))
      r == kh_eval(s3, argv[2], d + 1)
  IN IF s2.dead # "" THEN Return(s2, NULL)
     ELSE IF r.ret = NULL THEN r
     ELSE Return(kh_context_pop_scope(r.st), r.ret)

\* make without the comparison of the number of values with the number of keys.
make_uncounted(st, argc, argv, d) ==
  IF argv[1].type # "record-type" THEN Abort(st)
  ELSE Return(st, kh_record_new_from_values(argv[1], SubSeq(argv, 2, Len(argv))))

make(st, argc, argv, d) ==
  IF argv[1].type # "record-type" THEN Abort(st)
  ELSE LET num_keys == kh_record_type_get_num_keys(argv[1])
           num_provided == argc - 1
       IN IF num_provided # num_keys
          THEN KH_FAIL(st, "invalid-make",
                       "Tried to create record with " \o ToString(num_provided)
                       \o " values, expected " \o ToString(num_keys))
          ELSE Return(st, kh_record_new_from_values(argv[1], SubSeq(argv, 2, Len(argv))))

RECURSIVE print_line(_, _)
print_line(argv, i) ==
  IF i > Len(argv) THEN ""
  ELSE kh_inspect(argv[i]) \o (IF i # Len(argv) THEN " " ELSE "") \o print_line(argv, i + 1)

print(st, argc, argv, d) ==
  Return([st EXCEPT !.out = Append(@, print_line(argv, 1))], kh_nil)

quote(st, argc, argv, d) == Return(st, argv[1])

record_type(st, argc, argv, d) ==
  LET l == _extract_symbol_list(argv[2])
      type == kh_record_type_new(st.next_id, l.strings)
  IN IF ~l.ok \/ argv[1].type # "symbol" THEN Abort(st)
     ELSE Return(ScopeAdd([st EXCEPT !.next_id = @ + 1], kh_context_get_scope(st),
                          argv[1].name, type, d),
                 type)

rest(st, argc, argv, d) ==
  Return(st, IF KH_IS_CELL(argv[1]) THEN argv[1].right ELSE kh_nil)

string_to_string(st, argc, argv, d) ==
  IF argv[1].type # "string" THEN Abort(st) ELSE Return(st, kh_string_new(argv[1].text))

\* func->c_func(ctx, argc, argv)
c_func(st, f, argc, argv, d) ==
  CASE f = "add" -> add(st, argc, argv, d)
    [] f = "atom" -> atom(st, argc, argv, d)
    [] f = "set" -> set(st, argc, argv, d)
    [] f = "call_method" -> call_method(st, argc, argv, d)
    [] f = "def" -> def(st, argc, argv, d)
    [] f = "def_direct" -> def_direct(st, argc, argv, d)
    [] f = "def_method" -> def_method(st, argc, argv, d)
    [] f = "eval" -> eval(st, argc, argv, d)
    [] f = "first" -> first(st, argc, argv, d)
    [] f = "get_key" -> get_key(st, argc, argv, d)
    [] f = "inspect" -> inspect(st, argc, argv, d)
    [] f = "lambda" -> lambda(st, argc, argv, d)
    [] f = "let" -> let(st, argc, argv, d)
    [] f = "make" -> make(st, argc, argv, d)
    [] f = "print" -> print(st, argc, argv, d)
    [] f = "quote" -> quote(st, argc, argv, d)
    [] f = "record_type" -> record_type(st, argc, argv, d)
    [] f = "rest" -> rest(st, argc, argv, d)
    [] f = "string_to_string" -> string_to_string(st, argc, argv, d)

\* _REG_VARARGS / _REG: the name, native function and arity of each builtin.
Builtins ==
  << <<"+", "add", 1, LONG_MAX, FALSE>>,
     <<"=", "set", 2, 2, TRUE>>,
     <<"@", "call_method", 2, LONG_MAX, TRUE>>,
     <<"atom?", "atom", 1, 1, FALSE>>,
     <<"def", "def", 3, 3, TRUE>>,
     <<"def-direct", "def_direct", 3, 3, TRUE>>,
     <<"def-method", "def_method", 3, 3, TRUE>>,
     <<"eval", "eval", 1, 1, FALSE>>,
     <<"first", "first", 1, 1, FALSE>>,
     <<"get-key", "get_key", 2, 2, TRUE>>,
     <<"inspect", "inspect", 1, 1, FALSE>>,
     <<"inspect-direct", "inspect", 1, 1, TRUE>>,
     <<"lambda", "lambda", 2, 2, TRUE>>,
     <<"let", "let", 2, 2, TRUE>>,
     <<"make", "make", 1, LONG_MAX, FALSE>>,
     <<"print", "print", 0, LONG_MAX, FALSE>>,
     <<"quote", "quote", 1, 1, TRUE>>,
     <<"record-type", "record_type", 2, 2, TRUE>>,
     <<"rest", "rest", 1, 1, FALSE>> >>

\* The table of the builtins scope after _register_builtins.  kh_func_new_c
\* is passed #name, the stringified first macro argument, as the name.
_register_builtins ==
  [n \in {Builtins[i][1] : i \in 1..Len(Builtins)} |->
     LET b == Builtins[CHOOSE i \in 1..Len(Builtins) : Builtins[i][1] = n]
     IN kh_func_new_c("\"" \o b[1] \o "\"", b[2], b[3], b[4], b[5])]

\* The method table after _register_methods.
_register_methods ==
  <<[type |-> "basic-type", tag |-> "string"], "to-string">>
    :> kh_func_new_c("\"to-string\"", "string_to_string", 1, 1, FALSE)

\* ----------------------------------------------------------------- inputs
S(name) == kh_symbol_new(name)
I(n) == kh_int_new(n)
T(text) == kh_string_new(text)
L(seq) == ListOf(seq)
Q(val) == kh_quoted_new(val)

\* Values made by the host through the C interface: a record type, a record
\* of it and a native function.
HostType == kh_record_type_new(100, <<"k">>)
HostRecord == kh_record_new_from_values(HostType, <<I(1)>>)
HostFunc == kh_func_new_c("\"quote\"", "quote", 1, 1, TRUE)

\* Values of every variant that the atomicity predicate accepts.
AtomSamples == {kh_nil, I(1), T("s"), HostFunc, HostType, HostRecord, Q(S("x")), Q(I(1))}

\* The forms handed to kh_eval by the host.
Programs ==
  { I(1), T("s"), kh_nil, S("x"), S("a"), Q(S("x")), Q(I(1)),
    HostFunc, HostType, HostRecord,
    L(<<I(1)>>), L(<<I(1), S("nope")>>), L(<<S("x")>>), L(<<S("nope"), I(1)>>),
    L(<<S("="), S("x"), I(1)>>),
    L(<<S("="), S("y"), S("a")>>),
    L(<<S("="), S("x"), L(<<S("+"), S("x"), I(1)>>)>>),
    L(<<S("def"), S("f"), L(<<S("a")>>), L(<<S("+"), S("a"), S("x")>>)>>),
    L(<<S("def"), S("g"), L(<<S("x")>>), L(<<S("f"), I(1)>>)>>),
    L(<<S("def"), S("h"), L(<<S("a")>>), L(<<S("="), S("b"), S("nope")>>)>>),
    L(<<S("f"), I(2)>>), L(<<S("g"), I(5)>>), L(<<S("h"), I(3)>>),
    L(<<S("f")>>), L(<<S("f"), I(1), I(2)>>), L(<<S("f"), S("nope"), I(2)>>),
    L(<<S("eval")>>), L(<<S("eval"), S("nope"), I(2)>>), L(<<S("quote")>>),
    L(<<S("eval"), I(1), I(2)>>),
    L(<<S("quote"), L(<<S("x"), S("nope")>>)>>),
    L(<<S("eval"), Q(S("x"))>>),
    L(<<L(<<S("lambda"), L(<<S("a")>>), S("nope")>>), I(3)>>),
    L(<<L(<<S("lambda"), L(<<S("x")>>), S("x")>>), I(3)>>),
    L(<<L(<<I(1)>>), S("nope")>>),
    L(<<S("let"), L(<<L(<<T("a"), I(1)>>), L(<<T("b"), I(2)>>)>>), L(<<S("+"), S("a"), S("b")>>)>>),
    L(<<S("let"), L(<<L(<<T("x"), I(5)>>), L(<<T("y"), S("x")>>)>>), S("y")>>),
    L(<<S("let"), L(<<L(<<T("a"), S("nope")>>)>>), I(7)>>),
    L(<<S("let"), L(<<L(<<T("a"), I(1)>>)>>), S("nope")>>),
    L(<<S("let"), L(<<L(<<S("a"), I(1)>>)>>), S("a")>>) }

\* Programs about record types, records and methods, and calls that hand a
\* builtin a value of the wrong variant.
MakePt == L(<<S("make"), S("Pt"), I(1), I(2)>>)
RecordPrograms ==
  { L(<<S("record-type"), S("Pt"), L(<<S("x"), S("y")>>)>>),
    L(<<S("record-type"), S("Dup"), L(<<S("k"), S("k")>>)>>),
    MakePt,
    L(<<S("make"), S("Pt"), I(1)>>),
    L(<<S("get-key"), MakePt, T("x")>>),
    L(<<S("get-key"), MakePt, T("y")>>),
    L(<<S("get-key"), MakePt, T("z")>>),
    L(<<S("get-key"), L(<<S("make"), S("Dup"), I(1), I(2)>>), T("k")>>),
    L(<<S("def-method"), S("Pt"), S("getx"), L(<<S("self")>>),
        L(<<S("get-key"), S("self"), T("x")>>)>>),
    L(<<S("def-method"), S("Pt"), S("getx"), L(<<S("self")>>)>>),
    L(<<S("@"), MakePt, S("getx")>>),
    L(<<S("@"), T("s"), S("to-string")>>),
    L(<<S("@"), I(1), S("nope"), L(<<S("="), S("z"), I(1)>>)>>),
    L(<<S("@"), I(1), S("plus"), I(2), L(<<S("+"), I(1), I(2)>>)>>),
    L(<<S("@"), Q(S("x")), S("show")>>),
    L(<<S("@"), L(<<S("quote"), L(<<I(1), I(2)>>)>>), S("first")>>),
    L(<<S("+"), T("a")>>),
    L(<<S("first"), I(1)>>),
    L(<<S("make"), I(1), I(2)>>),
    L(<<S("get-key"), I(1), T("x")>>),
    L(<<S("get-key"), MakePt, S("x")>>),
    L(<<S("="), T("x"), I(1)>>),
    L(<<S("def"), I(1), L(<<S("a")>>), S("a")>>),
    S("nope"), L(<<I(1), I(2)>>), L(<<S("quote")>>) }

\* Methods a host registers with kh_method_add: on ints, symbols and cells.
BasicType(tag) == [type |-> "basic-type", tag |-> tag]
HostMethods ==
  { [type |-> BasicType("int"), name |-> "plus",
     func |-> kh_func_new_c("\"plus\"", "add", 1, LONG_MAX, FALSE)],
    [type |-> BasicType("symbol"), name |-> "show",
     func |-> kh_func_new_c("\"show\"", "inspect", 1, 1, FALSE)],
    [type |-> BasicType("cell"), name |-> "first",
     func |-> kh_func_new_c("\"first\"", "first", 1, 1, FALSE)] }

\* Record types, keys and values a host hands to kh_record_new and
\* kh_record_set.
HostType2 == kh_record_type_new(101, <<"x", "y">>)
HostKeyLists == {<<>>, <<"x">>, <<"y", "x">>, <<"z", "y">>}
HostKeys == {"x", "y", "z"}

\* How many values the host hands kh_record_new_from_values before the NULL.
HostCounts == 0..3

\* Calls of `+` on one and on two integer literals up to the ends of `int`
\* (INT_MAX) and of `long` (the parser reads them with strtol).
ArithPrograms ==
  LET INT_MAX == Pow2(INT_BITS - 1) - 1
      ArithOperands == {0, 1, -1, INT_MAX, -INT_MAX - 1, INT_MAX + 1, LONG_MAX}
  IN {L(<<S("+"), I(x)>>) : x \in ArithOperands}
     \cup {L(<<S("+"), I(x), I(y)>>) : x \in ArithOperands, y \in ArithOperands}
     \cup {L(<<S("+"), I(1), I(INT_MAX), I(-1)>>), L(<<S("+"), I(INT_MAX), I(-1), I(1)>>)}

\* Programs that bind names: at top level, in a function, in a let, under
\* the name of a builtin, and after a failure that left a nested scope
\* current.
ScopePrograms ==
  { S("x"),
    L(<<S("="), S("x"), I(1)>>),
    L(<<S("="), S("+"), I(1)>>),
    L(<<S("+"), I(1), I(2)>>),
    L(<<S("def"), S("f"), L(<<S("a")>>), L(<<S("="), S("b"), S("a")>>)>>),
    L(<<S("f"), I(3)>>),
    L(<<S("def"), S("let"), L(<<S("a")>>), S("a")>>),
    L(<<S("def-direct"), S("q"), L(<<S("a")>>), S("a")>>),
    L(<<S("record-type"), S("Pt"), L(<<S("x"), S("y")>>)>>),
    L(<<S("let"), L(<<L(<<T("a"), I(1)>>)>>), L(<<S("="), S("c"), S("a")>>)>>),
    L(<<S("let"), L(<<L(<<T("a"), I(1)>>)>>), S("nope")>>),
    L(<<S("let"), L(<<L(<<T("a"), S("nope")>>)>>), L(<<S("="), S("d"), I(1)>>)>>),
    L(<<L(<<S("lambda"), L(<<S("a")>>), S("nope")>>), I(3)>>) }

\* Values a host binds with kh_scope_add.
HostNames == {"x"}
HostValues == {I(7)}

\* What an out-of-bounds read of argv can yield: a valid value that happens
\* to lie there, or a wild pointer.
Uninit == {kh_nil, [type |-> "garbage"]}

\* ---------------------------------------------------------------- actions
NoCall == [op |-> "init", c |-> 0, form |-> NULL, ret |-> NULL, log |-> <<>>,
           out |-> <<>>, scope0 |-> 0, err0 |-> NULL]

Init ==
  /\ core_init_done = FALSE
  /\ scopes = <<>>
  /\ ctxs = <<>>
  /\ next_id = 1
  /\ dead = ""
  /\ last = NoCall
  /\ nsteps = 0
  /\ symbols = <<>>
  /\ interned = <<>>
  /\ cells = <<>>
  /\ tokenizer = NULL

Running == dead = "" /\ nsteps < MaxSteps

\* kh_context_new: the builtins scope (address 1) is built on the first call.
kh_context_new ==
  /\ Running
  /\ Len(ctxs) < MaxCtx
  /\ LET sc0 == IF ~core_init_done
                THEN [kh_scope_new(<<>>, 0) EXCEPT ![1].table = _register_builtins]
                ELSE scopes
         g == Len(sc0) + 1
     IN /\ scopes' = kh_scope_new(sc0, 1)
        /\ ctxs' = Append(ctxs, [global_scope |-> g, scope |-> g, error |-> NULL,
                                 methods |-> _register_methods])
        /\ last' = [NoCall EXCEPT !.op = "new", !.c = Len(ctxs) + 1]
  /\ core_init_done' = TRUE
  /\ nsteps' = nsteps + 1
  /\ UNCHANGED <<next_id, dead, symbols, interned, cells, tokenizer>>

\* The interpreter state for a call on context c.
StateOf(c, u) ==
  [scopes |-> scopes, scope |-> ctxs[c].scope, error |-> ctxs[c].error,
   methods |-> ctxs[c].methods, dead |-> "", out |-> <<>>, next_id |-> next_id,
   log |-> <<>>, uninit |-> u, used_uninit |-> FALSE]

\* Writes the interpreter state back after a call on context c.
Commit(c, st, op, form, ret) ==
  /\ scopes' = st.scopes
  /\ ctxs' = [ctxs EXCEPT ![c].scope = st.scope, ![c].error = st.error,
                          ![c].methods = st.methods]
  /\ next_id' = st.next_id
  /\ dead' = st.dead
  /\ last' = [op |-> op, c |-> c, form |-> form, ret |-> ret, log |-> st.log,
              out |-> st.out, scope0 |-> ctxs[c].scope, err0 |-> ctxs[c].error]
  /\ nsteps' = nsteps + 1
  /\ UNCHANGED <<core_init_done, symbols, interned, cells, tokenizer>>

\* The host calls kh_eval(ctx, form).
Eval(c, form) ==
  /\ Running
  /\ LET r0 == kh_eval(StateOf(c, kh_nil), form, 0)
     IN \E u \in (IF r0.st.used_uninit THEN Uninit ELSE {kh_nil}) :
          LET r == IF u = kh_nil THEN r0 ELSE kh_eval(StateOf(c, u), form, 0)
          IN Commit(c, r.st, "eval", form, r.ret)

\* kh_get_error(ctx) after the last call.
kh_get_error(c) == ctxs[c].error

\* The host calls kh_scope_add(kh_context_get_scope(ctx), name, val); the
\* event of the call keeps the heap as it was before.
HostScopeAdd(c, name, val) ==
  /\ Running
  /\ Commit(c, Log([StateOf(c, kh_nil) EXCEPT
                      !.scopes = kh_scope_add(@, ctxs[c].scope, name, val)],
                   Ev("add", 0, NULL, ctxs[c].scope, val, name, <<>>, scopes)),
            "add", NULL, NULL)

\* The host calls kh_method_add(ctx, type, name, func).
HostMethodAdd(c, m) ==
  /\ Running
  /\ Commit(c, kh_method_add(StateOf(c, kh_nil), m.type, m.name, m.func),
            "method_add", NULL, NULL)

\* The host calls kh_record_new(type, keys, values) with as many values as
\* keys; the event keeps the keys and the values, last.ret is the record.
HostRecordNew(c, keys) ==
  /\ Running
  /\ LET values == [j \in 1..Len(keys) |-> kh_int_new(j)]
     IN Commit(c, Log(StateOf(c, kh_nil),
                      Ev("record_new", 0, NULL, 0, HostType2, "",
                         [j \in 1..Len(keys) |-> kh_string_new(keys[j])] \o values,
                         scopes)),
               "record_new", NULL, kh_record_new(HostType2, keys, values))

\* The host calls kh_record_new_from_values(type, values) with an array of
\* n values followed by NULL; the event keeps the values.
HostRecordNewFromValues(c, n) ==
  /\ Running
  /\ LET values == [j \in 1..n |-> kh_int_new(j)]
     IN Commit(c, Log(StateOf(c, kh_nil),
                      Ev("record_from_values", 0, NULL, 0, HostType2, "", values, scopes)),
               "record_from_values", NULL,
               kh_record_new_from_values(HostType2, Append(values, NULL)))

\* The host calls kh_record_set(record, key, value) on the record it made
\* last; the event keeps the record before (form), the key (fn) and the
\* value, last.ret is the record after, last.out holds the bool returned.
HostRecordSet(c, key) ==
  /\ Running
  /\ last.op \in {"record_new", "record_from_values", "record_set"}
  /\ LET r == kh_record_set(last.ret, key, kh_int_new(9))
     IN Commit(c, Log([StateOf(c, kh_nil) EXCEPT !.out = <<ToString(r.ok)>>],
                      Ev("record_set", 0, last.ret, 0, kh_int_new(9), key, <<>>, scopes)),
               "record_set", last.ret, r.record)

\* The host calls kh_context_push_scope(ctx).
PushScope(c) ==
  /\ Running
  /\ Commit(c, kh_context_push_scope(StateOf(c, kh_nil)), "push", NULL, NULL)

\* The host calls kh_context_pop_scope(ctx).
PopScope(c) ==
  /\ Running
  /\ Commit(c, kh_context_pop_scope(StateOf(c, kh_nil)), "pop", NULL, NULL)

Next ==
  \/ kh_context_new
  \/ \E c \in 1..Len(ctxs) : \E form \in Programs : Eval(c, form)
  \/ \E c \in 1..Len(ctxs) : \E name \in HostNames : \E val \in HostValues :
       HostScopeAdd(c, name, val)
  \/ \E c \in 1..Len(ctxs) : PushScope(c)
  \/ \E c \in 1..Len(ctxs) : PopScope(c)

Spec == Init /\ [][Next]_vars

\* g_intern_string with a pool that hands out a new copy of the string on
\* every call.
g_intern_string_copy(pool, val) ==
  [pool |-> Append(pool, val), addr |-> Len(pool) + 1]

\* g_intern_string(val): the process-wide pool of canonical strings (a
\* string's address is its index); a string equal to one of the pool gives
\* that one, another string is copied into the pool.
g_intern_string(pool, val) ==
  IF \E a \in 1..Len(pool) : pool[a] = val
  THEN [pool |-> pool, addr |-> CHOOSE a \in 1..Len(pool) : pool[a] = val]
  ELSE [pool |-> Append(pool, val), addr |-> Len(pool) + 1]

\* The names of the symbols that the parser or the host creates.
SymbolNames == {"x", "y", "self"}

\* kh_symbol_new(val) as an allocation: a new KhSymbol (its address is its
\* index in symbols) whose value field is the interned name.
SymbolNew(val) ==
  /\ Len(symbols) < MaxSymbols
  /\ LET r == g_intern_string(interned, val)
     IN /\ interned' = r.pool
        /\ symbols' = Append(symbols, [type |-> "symbol", value |-> r.addr])
  /\ UNCHANGED <<core_init_done, scopes, ctxs, next_id, dead, last, nsteps, cells, tokenizer>>

\* The parser (parser.c:198) and the host create symbols.
NextSymbols == \E val \in SymbolNames : SymbolNew(val)

SpecSymbols == Init /\ [][NextSymbols]_vars

\* The host only creates contexts and evaluates programs: the ones that
\* bind names, and sums.
NextEval ==
  \/ kh_context_new
  \/ \E c \in 1..Len(ctxs) : \E form \in ScopePrograms \cup ArithPrograms : Eval(c, form)

SpecEval == Init /\ [][NextEval]_vars

\* ------------------------------------------------- lists on the heap
\* cells is the heap of KhCell objects, a cell's address is its index; the
\* pointer to the cell at address a is CellPtr(a), every other value is held
\* as itself.
CellPtr(a) == [type |-> "cell", addr |-> a]

\* The list at p as a value tree along its `right` chain (the `left` fields
\* are kept as they are).
RECURSIVE Tree(_, _)
Tree(heap, p) ==
  IF KH_IS_CELL(p) THEN kh_cell_new(heap[p.addr].left, Tree(heap, heap[p.addr].right))
  ELSE p

\* The address of the last cell of the list at address a:
\* while (KH_IS_CELL(tail->right)) tail = KH_CELL(tail->right)
RECURSIVE TailOf(_, _)
TailOf(heap, a) ==
  IF KH_IS_CELL(heap[a].right) THEN TailOf(heap, heap[a].right.addr) ELSE a

\* The heap holds at most MaxCells cells.
MaxCells == 3

ListCall(op, list, value, ret, heap, died) ==
  /\ last' = [NoCall EXCEPT !.op = op, !.form = list, !.ret = ret,
                !.log = <<Ev(op, 0, list, 0, value, "", <<>>, cells)>>]
  /\ cells' = heap
  /\ dead' = IF died THEN "assert" ELSE ""
  /\ nsteps' = nsteps + 1
  /\ UNCHANGED <<core_init_done, scopes, ctxs, next_id, symbols, interned, tokenizer>>

\* The host calls kh_cell_new(left, right).
CellNew(left, right) ==
  /\ Running /\ Len(cells) < MaxCells
  /\ ListCall("cell_new", right, left, CellPtr(Len(cells) + 1),
              Append(cells, [left |-> left, right |-> right]), FALSE)

\* kh_list_append that hangs the new cell on the first cell of the list.
kh_list_append_head(list, value) ==
  /\ Running /\ Len(cells) < MaxCells
  /\ LET new_tail == CellPtr(Len(cells) + 1)
         heap == Append(cells, [left |-> value, right |-> kh_nil])
     IN IF KH_IS_CELL(list)
        THEN ListCall("append", list, value, list,
                      [heap EXCEPT ![list.addr].right = new_tail], FALSE)
        ELSE IF KH_IS_NIL(list) THEN ListCall("append", list, value, new_tail, heap, FALSE)
        ELSE ListCall("append", list, value, NULL, heap, TRUE)

\* The host calls kh_list_append(list, value).
kh_list_append(list, value) ==
  /\ Running /\ Len(cells) < MaxCells
  /\ LET new_tail == CellPtr(Len(cells) + 1)
         heap == Append(cells, [left |-> value, right |-> kh_nil])
     IN IF KH_IS_CELL(list)
        THEN ListCall("append", list, value, list,
                      [heap EXCEPT ![TailOf(cells, list.addr)].right = new_tail], FALSE)
        ELSE IF KH_IS_NIL(list) THEN ListCall("append", list, value, new_tail, heap, FALSE)
        ELSE ListCall("append", list, value, NULL, heap, TRUE)

\* The host calls kh_list_prepend(list, value).
kh_list_prepend(list, value) ==
  /\ Running /\ Len(cells) < MaxCells
  /\ IF KH_IS_CELL(list) \/ KH_IS_NIL(list)
     THEN ListCall("prepend", list, value, CellPtr(Len(cells) + 1),
                   Append(cells, [left |-> value, right |-> list]), FALSE)
     ELSE ListCall("prepend", list, value, NULL, cells, TRUE)

\* The host calls kh_list_length(list); last.ret is the int returned.
ListLength(list) ==
  /\ Running
  /\ LET n == kh_list_length(Tree(cells, list))
     IN IF n = ASSERT_FAIL THEN ListCall("length", list, NULL, NULL, cells, TRUE)
        ELSE ListCall("length", list, NULL, kh_int_new(n), cells, FALSE)

\* The host builds lists and measures them: it stores nil and an integer in
\* cells, and passes these and the pointers to the cells of the heap.
NextLists ==
  \/ \E left \in {kh_nil, I(1)} :
       \E right \in {kh_nil, I(1)} \cup {CellPtr(a) : a \in 1..Len(cells)} :
         CellNew(left, right)
  \/ \E list \in {kh_nil, I(1)} \cup {CellPtr(a) : a \in 1..Len(cells)} :
       \E value \in {kh_nil, I(1)} : kh_list_append(list, value)
  \/ \E list \in {kh_nil, I(1)} \cup {CellPtr(a) : a \in 1..Len(cells)} :
       \E value \in {kh_nil, I(1)} : kh_list_prepend(list, value)
  \/ \E list \in {kh_nil, I(1)} \cup {CellPtr(a) : a \in 1..Len(cells)} :
       ListLength(list)

SpecLists == Init /\ [][NextLists]_vars

\* ------------------------------------------------------- tokenizer
\* A character is a string of length one; the input is a string of them.
CharsOf(str) == {SubSeq(str, i, i) : i \in 1..Len(str)}

\* The value _read and _peek store at the end of the input.
EOF == "EOF"

KH_TOKENIZER_SPECIAL_PUNCT == CharsOf(",'{}()[]\n")

\* isdigit and isalpha of <ctype.h>, which g_unichar_isdigit and
\* g_unichar_isalpha equal on the characters of ASCII; g_unichar_ispunct of
\* GLib on them (punctuation and symbols).  The inputs hold no backquote, so
\* the branch of backquote strings (tokenizer.c:493-507) is never entered and
\* is left out.
isdigit(ch) == ch \in CharsOf("0123456789")
isalpha(ch) == ch \in CharsOf("abcdefghijklmnopqrstuvwxyzABCDEFGHIJKLMNOPQRSTUVWXYZ")
g_unichar_ispunct(ch) == ch \in CharsOf("!\"#$%&'()*+,-./:;<=>?@[\\]^_{|}~")

\* struct _KhTokenizer: text and pos stand for the rest of the input (of the
\* string, or of the file behind the channel), str and channel tell whether
\* the pointer is non-NULL.  died is set when an assertion has failed.
NewTokenizer(text, is_file) ==
  [text |-> text, pos |-> 1, str |-> ~is_file, channel |-> is_file,
   line |-> 1, col |-> 1, peek_avail |-> FALSE, peeked |-> "", died |-> FALSE]

\* _read gives the tokenizer after the call (t), the value returned (ok) and
\* the character stored (c).  The branch of a string returns at
\* tokenizer.c:191, before the line and column are counted at 213-218.
_read(tk) ==
  LET here == SubSeq(tk.text, tk.pos, tk.pos)
      Counted(t, ch) == IF ch = "\n" THEN [t EXCEPT !.line = @ + 1, !.col = 1]
                        ELSE [t EXCEPT !.col = @ + 1]
  IN IF tk.peek_avail
     THEN [t |-> Counted([tk EXCEPT !.peek_avail = FALSE], tk.peeked),
           ok |-> TRUE, c |-> tk.peeked]
     ELSE IF tk.str
     THEN IF tk.pos > Len(tk.text)
          THEN [t |-> [tk EXCEPT !.str = FALSE], ok |-> TRUE, c |-> EOF]
          ELSE [t |-> [tk EXCEPT !.pos = @ + 1], ok |-> TRUE, c |-> here]
     ELSE IF ~tk.channel THEN [t |-> tk, ok |-> FALSE, c |-> EOF]
     ELSE IF tk.pos > Len(tk.text)
     THEN [t |-> [tk EXCEPT !.channel = FALSE, !.peek_avail = FALSE],
           ok |-> TRUE, c |-> EOF]
     ELSE [t |-> Counted([tk EXCEPT !.pos = @ + 1], here), ok |-> TRUE, c |-> here]

_peek(tk) ==
  LET here == SubSeq(tk.text, tk.pos, tk.pos)
      peeked == [t |-> [tk EXCEPT !.peeked = here, !.pos = @ + 1, !.peek_avail = TRUE],
                 ok |-> TRUE, c |-> here]
  IN IF tk.peek_avail THEN [t |-> tk, ok |-> TRUE, c |-> tk.peeked]
     ELSE IF tk.str
     THEN IF tk.pos <= Len(tk.text) THEN peeked
          ELSE [t |-> [tk EXCEPT !.str = FALSE, !.peeked = EOF, !.peek_avail = TRUE],
                ok |-> TRUE, c |-> EOF]
     ELSE IF ~tk.channel THEN [t |-> tk, ok |-> FALSE, c |-> EOF]
     ELSE IF tk.pos <= Len(tk.text) THEN peeked
     ELSE [t |-> [tk EXCEPT !.channel = FALSE, !.peeked = EOF, !.peek_avail = TRUE],
           ok |-> TRUE, c |-> EOF]

\* g_assert(self->peek_avail), then _read
_consume(tk) ==
  IF ~tk.peek_avail THEN [tk EXCEPT !.died = TRUE] ELSE _read(tk).t

\* A sub-tokenizer gives the tokenizer after it (t) and result->val (val).
\* Each function hands what it has read to a local operator and goes on
\* there: Peeked(p) is the function after its _peek has given p.
\* _tokenize_number collects digits (tokenizer.c:329-334), then skips a
\* suffix of letters and digits (340-345) that line 351 cuts off again.
RECURSIVE _tokenize_number(_, _, _)
_tokenize_number(tk, val, in_suffix) ==
  LET Peeked(p) ==
        IF p.ok /\ isdigit(p.c) /\ ~in_suffix
        THEN _tokenize_number(_consume(p.t), val \o p.c, FALSE)
        ELSE IF p.ok /\ (isalpha(p.c) \/ isdigit(p.c))
        THEN _tokenize_number(_consume(p.t), val, TRUE)
        ELSE [t |-> p.t, ok |-> TRUE, val |-> val]
  IN Peeked(_peek(tk))

RECURSIVE _tokenize_identifier(_, _)
_tokenize_identifier(tk, val) ==
  LET Peeked(p) ==
        IF /\ p.ok
           /\ p.c \notin KH_TOKENIZER_SPECIAL_PUNCT
           /\ \/ p.c = "_" \/ p.c = "-" \/ isalpha(p.c)
              \/ isdigit(p.c) \/ g_unichar_ispunct(p.c)
        THEN _tokenize_identifier(_consume(p.t), val \o p.c)
        ELSE [t |-> p.t, ok |-> TRUE, val |-> val]
  IN Peeked(_peek(tk))

\* Unescaped(ch) is the character a backslash and ch stand for
\* (tokenizer.c:391-406), SkipBlanks the loop of tokenizer.c:402 after its
\* _peek has given b, Escaped the branch of a backslash after its _read has
\* given e.
RECURSIVE _tokenize_string(_, _)
_tokenize_string(tk, val) ==
  LET RECURSIVE SkipBlanks(_)
      SkipBlanks(b) ==
        IF b.ok /\ (b.c = " " \/ b.c = "\t") THEN SkipBlanks(_peek(_consume(b.t)))
        ELSE b.t
      Unescaped(ch) == CASE ch = "n" -> "\n"
                         [] ch = "r" -> "\r"
                         [] ch = "t" -> "\t"
                         [] ch = "'" -> "\""
                         [] ch = EOF -> ""
                         [] OTHER -> ch
      Escaped(e) ==
        IF e.c = "\r"
        THEN _tokenize_string(SkipBlanks(_peek(_read(e.t).t)), val \o "\n")
        ELSE IF e.c = "\n" THEN _tokenize_string(SkipBlanks(_peek(e.t)), val \o "\n")
        ELSE _tokenize_string(e.t, val \o Unescaped(e.c))
      Peeked(p) ==
        IF ~(p.ok /\ p.c # "\"" /\ p.c # EOF) THEN [t |-> p.t, ok |-> TRUE, val |-> val]
        ELSE IF p.c # "\\" THEN _tokenize_string(_consume(p.t), val \o p.c)
        ELSE Escaped(_read(_consume(p.t)))
  IN Peeked(_peek(tk))

\* kh_tokenizer_next: ok is the value returned, token the KhToken made by
\* _maketoken (NULL when none), err the KhSyntaxError set; start is the
\* offset in the input of the character read at tokenizer.c:458, the next
\* one that no _read has returned yet.  Read(r) is the function after that
\* _read has given r, SkipComment the loop of tokenizer.c:465 after its
\* _peek has given p, Minus the branch of a `-` after its _peek, Closed the
\* branch of a string after the _read of its end.
RECURSIVE kh_tokenizer_next(_)
kh_tokenizer_next(tk) ==
  LET start == IF tk.peek_avail /\ tk.peeked # EOF THEN tk.pos - 1 ELSE tk.pos
      Tok(type, t, val) ==
        [t |-> t, ok |-> TRUE, err |-> "", start |-> start,
         token |-> [type |-> type, line |-> tk.line, col |-> tk.col, val |-> val,
                    start |-> start]]
      Fail(t, err) == [t |-> t, ok |-> FALSE, token |-> NULL, err |-> err, start |-> start]
      Sub(type, sub) == Tok(type, sub.t, sub.val)
      RECURSIVE SkipComment(_)
      SkipComment(p) ==
        IF p.ok /\ ~(p.c = "\n" \/ p.c = EOF) THEN SkipComment(_peek(_consume(p.t)))
        ELSE p.t
      Comment(t1) ==
        IF t1.died THEN Fail(t1, "") ELSE Tok("\n", SkipComment(_peek(t1)), "")
      Closed(sub, close) ==
        IF ~close.ok THEN Fail(close.t, "")
        ELSE IF close.c = "\"" THEN Tok("T_STRING", close.t, sub.val)
        ELSE Fail(close.t, "MISSING_DELIMITER")
      String(sub) == Closed(sub, _read(sub.t))
      Other(ch, t2) ==
        IF ch \in KH_TOKENIZER_SPECIAL_PUNCT THEN Tok(ch, t2, "")
        ELSE IF isdigit(ch) THEN Sub("T_NUMBER", _tokenize_number(t2, ch, FALSE))
        ELSE IF ch = "\"" THEN String(_tokenize_string(t2, ""))
        ELSE IF ch = " " \/ ch = "\t" \/ ch = "\r" THEN kh_tokenizer_next(t2)
        ELSE IF isalpha(ch) \/ g_unichar_ispunct(ch)
        THEN Sub("T_IDENTIFIER", _tokenize_identifier(t2, ch))
        ELSE Fail(t2, "UNEXPECTED_CHAR")
      Minus(p) ==
        IF p.ok /\ isdigit(p.c) THEN Sub("T_NUMBER", _tokenize_number(p.t, "-", FALSE))
        ELSE Other("-", p.t)
      Read(r) ==
        IF ~r.ok THEN Fail(r.t, "")
        ELSE IF r.c = EOF THEN Tok("T_EOF", r.t, "")
        ELSE IF r.c = "#" THEN Comment(_consume(r.t))
        ELSE IF r.c = "-" THEN Minus(_peek(r.t))
        ELSE Other(r.c, r.t)
  IN Read(_read(tk))

\* The texts a host hands to the tokenizer, as a string or as a file.
TokenSources ==
  {"", "a b", "ab c\nd", "x\n\ny z", "# c\nx", "x # c\ny #", "12ab 3", "-5 - -x",
   "\"a\\nb\" c", "(f 1)\n{g,h}", "a\r\nb", "a\fb", "\"abc", "'[1 + 2]", "\"a\\\n  b\"\nc"}

\* The host calls kh_tokenizer_new_from_string(text).
kh_tokenizer_new_from_string(text) ==
  /\ dead = ""
  /\ tokenizer' = NewTokenizer(text, FALSE)
  /\ last' = [NoCall EXCEPT !.op = "token",
                !.form = [type |-> "tokenizer", tk |-> tokenizer]]
  /\ UNCHANGED <<core_init_done, scopes, ctxs, next_id, dead, nsteps, symbols, interned,
                 cells>>

\* The host calls kh_tokenizer_new on a file that holds text.
kh_tokenizer_new(text) ==
  /\ dead = ""
  /\ tokenizer' = NewTokenizer(text, TRUE)
  /\ last' = [NoCall EXCEPT !.op = "token",
                !.form = [type |-> "tokenizer", tk |-> tokenizer]]
  /\ UNCHANGED <<core_init_done, scopes, ctxs, next_id, dead, nsteps, symbols, interned,
                 cells>>

\* The host calls kh_tokenizer_next on its tokenizer; last.form is the
\* tokenizer before the call, last.ret the token, last.log the whole result.
TokenizerNext ==
  /\ dead = ""
  /\ tokenizer # NULL
  /\ LET res == kh_tokenizer_next(tokenizer)
     IN /\ tokenizer' = res.t
        /\ last' = [NoCall EXCEPT !.op = "token",
                      !.form = [type |-> "tokenizer", tk |-> tokenizer],
                      !.ret = IF res.ok THEN res.token ELSE NULL,
                      !.log = <<res>>]
        /\ dead' = IF res.t.died THEN "assert" ELSE ""
  /\ UNCHANGED <<core_init_done, scopes, ctxs, next_id, nsteps, symbols, interned, cells>>

NextTokens ==
  \/ \E text \in TokenSources : kh_tokenizer_new_from_string(text)
  \/ \E text \in TokenSources : kh_tokenizer_new(text)
  \/ TokenizerNext

SpecTokens == Init /\ [][NextTokens]_vars

\* ---------------------------------------------------------- parser
\* A read outside an object yields "<wild>".  The build can go on after one
\* in three ways (the `wild` of a parser context): a crash ("segv"), or a
\* value that makes the comparison it is used in come out "equal" or
\* "differs".
\* kh_token_type_name: TOKEN_NAMES[token_type - T_MIN_TOKEN], with
\* KhTokenType as a number (tokenizer.h:43-51), reads past the array of four
\* names for T_STRING.
kh_token_type_name(type) ==
  LET T_MIN_TOKEN == 256
      token_type == CASE type = "T_IDENTIFIER" -> T_MIN_TOKEN + 1
                      [] type = "T_NUMBER" -> T_MIN_TOKEN + 2
                      [] type = "T_DECIMAL" -> T_MIN_TOKEN + 3
                      [] type = "T_STRING" -> T_MIN_TOKEN + 4
      TOKEN_NAMES == <<"identifier", "number", "decimal", "string">>
  IN IF type = "\n" THEN "'\\n'"
     ELSE IF type = "T_EOF" THEN "EOF"
     ELSE IF Len(type) = 1 THEN "'" \o type \o "'"
     ELSE IF token_type - T_MIN_TOKEN < Len(TOKEN_NAMES)
     THEN TOKEN_NAMES[token_type - T_MIN_TOKEN + 1]
     ELSE "<wild>"

\* What a function of the parser gives: the context after it and the value
\* returned.
PVal(pc, ret) == [p |-> pc, ret |-> ret]

\* The parser context after a call of kh_tokenizer_next has given res, the
\* first of tokens; the last of tokens is what every later call gives.
AfterNext(pc, res) ==
  [pc EXCEPT !.tokenizer = res.t,
             !.tokens = IF Len(@) > 1 THEN Tail(@) ELSE @,
             !.died = IF res.t.died THEN "assert" ELSE @,
             !.err = IF res.err = "" THEN @
                     ELSE [code |-> res.err,
                           msg |-> IF res.err = "MISSING_DELIMITER" THEN "Missing '\"'"
                                   ELSE "Invalid character",
                           line |-> res.t.line, col |-> res.t.col]]

\* _read of parser.c; kh_tokenizer_next(pc.tokenizer) is Head(pc.tokens).
parser_read(pc) ==
  LET Tokenized(res) == [p |-> AfterNext(pc, res), ok |-> res.ok, token |-> res.token]
  IN IF pc.has_peek
     THEN [p |-> [pc EXCEPT !.has_peek = FALSE], ok |-> TRUE, token |-> pc.peek_token]
     ELSE Tokenized(Head(pc.tokens))

\* _peek of parser.c; kh_tokenizer_next(pc.tokenizer) is Head(pc.tokens).
parser_peek(pc) ==
  LET Tokenized(res) ==
        IF res.ok
        THEN [p |-> [AfterNext(pc, res) EXCEPT !.peek_token = res.token,
                                               !.has_peek = TRUE],
              ok |-> TRUE, token |-> res.token]
        ELSE [p |-> [AfterNext(pc, res) EXCEPT !.has_peek = FALSE],
              ok |-> FALSE, token |-> NULL]
  IN IF pc.has_peek THEN [p |-> pc, ok |-> TRUE, token |-> pc.peek_token]
     ELSE Tokenized(Head(pc.tokens))

\* _consume of parser.c
parser_consume(pc) ==
  IF ~pc.has_peek THEN [pc EXCEPT !.died = "assert"] ELSE [pc EXCEPT !.has_peek = FALSE]

_error(pc, token, code, msg) ==
  [pc EXCEPT !.err = [code |-> code, msg |-> msg, line |-> token.line, col |-> token.col]]

\* _expect: ok iff the token has one of the types.
_expect(pc, token, types) ==
  IF \E i \in 1..Len(types) : token.type = types[i] THEN [p |-> pc, ok |-> TRUE]
  ELSE LET RECURSIVE JoinNames(_)
           JoinNames(names) ==
             IF Len(names) = 1 THEN names[1]
             ELSE names[1] \o ", " \o JoinNames(Tail(names))
           unexpected == kh_token_type_name(token.type)
           expected == [i \in 1..Len(types) |-> kh_token_type_name(types[i])]
       IN IF /\ pc.wild = "segv"
             /\ \/ unexpected = "<wild>"
                \/ \E i \in 1..Len(types) : expected[i] = "<wild>"
          THEN [p |-> [pc EXCEPT !.died = "segv"], ok |-> FALSE]
          ELSE [p |-> _error(pc, token, "MALFORMED",
                             "Unexpected " \o unexpected \o ", expected one of: "
                               \o JoinNames(expected)),
                ok |-> FALSE]

RECURSIVE _ignore_newlines(_)
_ignore_newlines(pc) ==
  LET Peeked(k) ==
        IF ~k.ok THEN [p |-> k.p, ok |-> FALSE]
        ELSE IF k.token.type = "\n" THEN _ignore_newlines(parser_consume(k.p))
        ELSE [p |-> k.p, ok |-> TRUE]
  IN Peeked(parser_peek(pc))

_token_type_is_value(type) ==
  type \in {"'", "(", "[", "{", "T_NUMBER", "T_IDENTIFIER", "T_STRING"}

\* strtol(val, &end, 10) of a number token: an optional `-` and digits.
strtol(str) ==
  LET DigitValue(ch) == CHOOSE dv \in 0..9 : ToString(dv) = ch
      RECURSIVE Digits(_, _)
      Digits(rest_of, acc) ==
        IF Len(rest_of) = 0 THEN acc
        ELSE Digits(SubSeq(rest_of, 2, Len(rest_of)),
                    acc * 10 + DigitValue(SubSeq(rest_of, 1, 1)))
  IN IF SubSeq(str, 1, 1) = "-" THEN 0 - Digits(SubSeq(str, 2, Len(str)), 0)
     ELSE Digits(str, 0)

_parse_number(pc) ==
  LET Read(r) ==
        IF ~r.ok THEN PVal(r.p, NULL)
        ELSE IF strtol(r.token.val) > LONG_MAX \/ strtol(r.token.val) < 0 - LONG_MAX - 1
        THEN PVal(_error(r.p, r.token, "BAD_LITERAL", "Long integer out of range"), NULL)
        ELSE PVal(r.p, kh_int_new(strtol(r.token.val)))
  IN Read(parser_read(pc))

_parse_string(pc) ==
  LET Read(r) == IF ~r.ok THEN PVal(r.p, NULL) ELSE PVal(r.p, kh_string_new(r.token.val))
  IN Read(parser_read(pc))

_parse_identifier(pc) ==
  LET Read(r) ==
        IF ~r.ok THEN PVal(r.p, NULL)
        ELSE IF r.token.val = "nil" THEN PVal(r.p, kh_nil)
        ELSE PVal(r.p, kh_symbol_new(r.token.val))
  IN Read(parser_read(pc))

\* kh_list_append on a list no other value shares: the list with value at
\* its end.
RECURSIVE list_append(_, _)

\* list_append that puts the value in front.
list_append_front(list, value) == kh_cell_new(value, list)

list_append(list, value) ==
  IF KH_IS_CELL(list)
  THEN IF KH_IS_CELL(list.right)
       THEN kh_cell_new(list.left, list_append(list.right, value))
       ELSE kh_cell_new(list.left, kh_cell_new(value, kh_nil))
  ELSE kh_cell_new(value, kh_nil)

RECURSIVE _parse_value(_)
RECURSIVE OperatorListLoop(_, _, _, _)
RECURSIVE _parse_closed_list(_, _, _)
RECURSIVE _parse_open_list(_, _, _)

\* The loop of parser.c:221-267, from its last step to its first: the loop
\* skips newlines (Newlines1), peeks (Peeked), reads a value (Value), skips
\* newlines (Newlines2), peeks (After), and at an identifier (Expected) reads
\* the first operator (First), which kh_list_prepend puts in front, or
\* compares a later one (Later).  The cast in
\* strcmp(((KhSymbol*) operator)->value, token.val) != 0 is not checked, and
\* on a value that is no symbol the field lies outside the object.
OperatorListLoop(pc, terminator, result, operator) ==
  LET Later(c1, token, appended) ==
        IF operator.type # "symbol" /\ c1.wild = "segv"
        THEN PVal([c1 EXCEPT !.died = "segv"], NULL)
        ELSE IF (IF operator.type = "symbol" THEN operator.name # token.val
                 ELSE c1.wild = "differs")
        THEN PVal(_error(c1, token, "MALFORMED",
                         "Non-matching operator " \o token.val \o " in operator list"),
                  NULL)
        ELSE OperatorListLoop(c1, terminator, appended, operator)
      First(op, appended) ==
        OperatorListLoop(op.p, terminator, kh_cell_new(op.ret, appended), op.ret)
      Expected(x, token, appended) ==
        IF ~x.ok THEN PVal(x.p, NULL)
        ELSE IF operator # NULL THEN Later(parser_consume(x.p), token, appended)
        ELSE First(_parse_value(x.p), appended)
      After(k2, appended) ==
        IF ~k2.ok THEN PVal(k2.p, NULL)
        ELSE IF k2.token.type = terminator THEN PVal(k2.p, appended)
        ELSE Expected(_expect(k2.p, k2.token, <<"T_IDENTIFIER">>), k2.token, appended)
      Newlines2(n2, appended) ==
        IF ~n2.ok THEN PVal(n2.p, NULL) ELSE After(parser_peek(n2.p), appended)
      Value(v) ==
        IF v.ret = NULL THEN v
        ELSE Newlines2(_ignore_newlines(v.p), list_append(result, v.ret))
      Peeked(k1) ==
        IF ~k1.ok THEN PVal(k1.p, NULL)
        ELSE IF ~_token_type_is_value(k1.token.type)
        THEN PVal(_error(k1.p, k1.token, "MALFORMED",
                         "Unexpected " \o kh_token_type_name(k1.token.type)
                           \o ", expected a value"), NULL)
        ELSE Value(_parse_value(k1.p))
      Newlines1(n1) ==
        IF ~n1.ok THEN PVal(n1.p, NULL) ELSE Peeked(parser_peek(n1.p))
  IN Newlines1(_ignore_newlines(pc))

\* parser.c:207-270: an empty list (Empty, Closed), or the loop.
_parse_operator_list(pc, terminator) ==
  LET Closed(x) == IF ~x.ok THEN PVal(x.p, NULL) ELSE PVal(x.p, kh_nil)
      Empty(n2, token) ==
        IF ~n2.ok THEN PVal(n2.p, NULL) ELSE Closed(_expect(n2.p, token, <<terminator>>))
      Peeked(k1) ==
        IF ~k1.ok THEN PVal(k1.p, NULL)
        ELSE IF ~_token_type_is_value(k1.token.type)
        THEN Empty(_ignore_newlines(k1.p), k1.token)
        ELSE OperatorListLoop(k1.p, terminator, kh_nil, NULL)
      Newlines(n1) ==
        IF ~n1.ok THEN PVal(n1.p, NULL) ELSE Peeked(parser_peek(n1.p))
  IN Newlines(_ignore_newlines(pc))

\* _parse_closed_list with the list read so far (kh_nil at the call): the
\* loop of parser.c:276-300, which skips newlines in parentheses only
\* (Newlines), peeks (Peeked) and reads a value (Value) or ends (Done).
_parse_closed_list(pc, terminator, result) ==
  LET Done(x) == IF ~x.ok THEN PVal(x.p, NULL) ELSE PVal(x.p, result)
      Value(v) ==
        IF v.ret = NULL THEN v
        ELSE _parse_closed_list(v.p, terminator, list_append(result, v.ret))
      Peeked(k1) ==
        IF ~k1.ok THEN PVal(k1.p, NULL)
        ELSE IF ~_token_type_is_value(k1.token.type)
        THEN Done(_expect(k1.p, k1.token,
                          IF terminator = ")" THEN <<")">> ELSE <<terminator, ",", "\n">>))
        ELSE Value(_parse_value(k1.p))
      Newlines(n1) ==
        IF ~n1.ok THEN PVal(n1.p, NULL) ELSE Peeked(parser_peek(n1.p))
  IN Newlines(IF terminator = ")" THEN _ignore_newlines(pc) ELSE [p |-> pc, ok |-> TRUE])

\* _parse_open_list with the list read so far (kh_nil at the call): the loop
\* of parser.c:309-329, which peeks (Peeked), reads a statement at a value
\* (Statement), peeks again (After) and expects a separator or the end
\* (Expected).
_parse_open_list(pc, terminator, result) ==
  LET Expected(x, token, appended) ==
        IF ~x.ok THEN PVal(x.p, NULL)
        ELSE IF token.type = terminator THEN PVal(x.p, appended)
        ELSE _parse_open_list(parser_consume(x.p), terminator, appended)
      After(k2, appended) ==
        IF ~k2.ok THEN PVal(k2.p, NULL)
        ELSE Expected(_expect(k2.p, k2.token, <<",", "\n", terminator>>),
                      k2.token, appended)
      Statement(stmt) ==
        IF stmt.ret = NULL THEN stmt
        ELSE After(parser_peek(stmt.p), list_append(result, stmt.ret))
      Peeked(k1) ==
        IF ~k1.ok THEN PVal(k1.p, NULL)
        ELSE IF _token_type_is_value(k1.token.type)
        THEN Statement(_parse_closed_list(k1.p, terminator, kh_nil))
        ELSE After(k1, result)
  IN Peeked(parser_peek(pc))

\* parser.c:334-397: a quote is consumed (Peeked), the token after it
\* checked (Checked), the value read by its kind (Value), a list closed by
\* its terminator (List, Closing, Expected), and the value quoted (Quoted).
_parse_value(pc) ==
  LET Expected(x, ret) == IF ~x.ok THEN PVal(x.p, NULL) ELSE PVal(x.p, ret)
      Closing(closing, terminator, ret) ==
        IF ~closing.ok THEN PVal(closing.p, NULL)
        ELSE Expected(_expect(closing.p, closing.token, <<terminator>>), ret)
      List(new_value, terminator) ==
        IF new_value.ret = NULL THEN new_value
        ELSE Closing(parser_read(new_value.p), terminator, new_value.ret)
      Value(k1, type) ==
        CASE type = "(" -> List(_parse_closed_list(parser_consume(k1.p), ")", kh_nil), ")")
          [] type = "[" -> List(_parse_operator_list(parser_consume(k1.p), "]"), "]")
          [] type = "{" -> List(_parse_open_list(parser_consume(k1.p), "}", kh_nil), "}")
          [] type = "T_NUMBER" -> _parse_number(k1.p)
          [] type = "T_STRING" -> _parse_string(k1.p)
          [] OTHER -> _parse_identifier(k1.p)
      Quoted(checked, quote_value) ==
        IF quote_value /\ checked.ret # NULL
        THEN PVal(checked.p, kh_quoted_new(checked.ret))
        ELSE checked
      Checked(k1, quote_value) ==
        IF ~k1.ok THEN PVal(k1.p, NULL)
        ELSE IF ~_token_type_is_value(k1.token.type) \/ k1.token.type = "'"
        THEN PVal(_error(k1.p, k1.token, "MALFORMED",
                         "Unexpected " \o kh_token_type_name(k1.token.type)
                           \o ", expected a value"),
                  NULL)
        ELSE Quoted(Value(k1, k1.token.type), quote_value)
      Peeked(k0) ==
        IF ~k0.ok THEN PVal(k0.p, NULL)
        ELSE Checked(IF k0.token.type = "'" THEN parser_peek(parser_consume(k0.p)) ELSE k0,
                     k0.token.type = "'")
  IN Peeked(parser_peek(pc))

\* parser.c:399-409
_parse(pc) ==
  LET Expected(x, ret) == IF ~x.ok THEN PVal(x.p, NULL) ELSE PVal(x.p, ret)
      End(r, ret) ==
        IF ~r.ok THEN PVal(r.p, NULL)
        ELSE Expected(_expect(r.p, r.token, <<"T_EOF">>), ret)
      Result(result) ==
        IF result.ret = NULL THEN result ELSE End(parser_read(result.p), result.ret)
  IN Result(_parse_open_list(pc, "T_EOF", kh_nil))

\* kh_parse_string makes the KhParserContext: err is the GError set (its
\* code, message, line, column), died tells how the process has died, wild
\* what a wild read does.  tokens are the results that the calls of
\* kh_tokenizer_next on the tokenizer give one after another, up to the
\* first that fails at the end of the input or on an assertion: the parser
\* takes them one at a time (parser.c:46, 60).
kh_parse_string(str, wild) ==
  LET RECURSIVE Tokens(_)
      Tokens(res) ==
        IF res.t.died \/ (~res.ok /\ res.err = "") THEN <<res>>
        ELSE <<res>> \o Tokens(kh_tokenizer_next(res.t))
  IN _parse([tokenizer |-> NewTokenizer(str, FALSE),
             tokens |-> Tokens(kh_tokenizer_next(NewTokenizer(str, FALSE))),
             has_peek |-> FALSE, peek_token |-> NULL, err |-> NULL, died |-> "",
             wild |-> wild])

\* The texts a host parses.
ParseSources ==
  {"", "a", "a b", "a b\nc d", "a,b", ",,a,,b c,,", "\n\na\n\nb\n", "{}", "()",
   "{a b, c}", "f {a b\n c d\n} g", "(a\nb) c", "{\n,}", "a (b {c, d e} ()) f",
   "a )", "{a ]}", "(a , b)", "{a", "a }", "(a",
   "[1 + 2]", "[1 + 2 + 3]", "[a op b op c op d]", "[1 + 2 - 3]", "[1 + 2 + 3 * 4]",
   "[1]", "[]", "[1 +]", "[1\n+\n2\n+\n3\n]", "[[1 + 2] * 3 * [4 - 5 - 6]]",
   "['a x 'b x (c d)]", "[1 nil 2]", "[1 nil 2 nil 3]", "[1 \"s\" 2]", "[1 2]", "[+ 1]",
   "'x", "f 'a '(b 'c)", "''x", "' ", "\"a\fb\"", "\"a\\nb\" 12 -3 nil",
   "p \"q\\\"r\\\\\" 'nil", "9999", "-9999", "# c\nx", "a\fb", "\"abc"}

\* The host calls kh_parse_string(text) after kh_context_new has set kh_nil
\* (eval.c:180), as cli/main.c does; Returned(res) is the state after the
\* call has given res.
ParseString(text, wild) ==
  LET Returned(res) ==
        /\ last' = [NoCall EXCEPT !.op = "parse", !.form = T(text), !.ret = res.ret,
                      !.out = <<text>>, !.log = <<res.p>>]
        /\ dead' = res.p.died
  IN /\ dead = "" /\ core_init_done
     /\ Returned(kh_parse_string(text, wild))
     /\ UNCHANGED <<core_init_done, scopes, ctxs, next_id, nsteps, symbols, interned,
                    cells, tokenizer>>

\* The host inspects a form of the list it has parsed and parses the text.
InspectAndParse(i, wild) ==
  LET Returned(form, text, res) ==
        /\ last' = [NoCall EXCEPT !.op = "reparse", !.form = form, !.ret = res.ret,
                      !.out = <<text>>, !.log = <<res.p>>]
        /\ dead' = res.p.died
      Inspected(form, text) == Returned(form, text, kh_parse_string(text, wild))
      Reparse(form) == Inspected(form, kh_inspect(form))
  IN /\ dead = "" /\ core_init_done
     /\ last.op = "parse" /\ last.ret # NULL
     /\ Reparse(KH_ITERATE(last.ret)[i])
     /\ UNCHANGED <<core_init_done, scopes, ctxs, next_id, nsteps, symbols, interned,
                    cells, tokenizer>>

NextParse ==
  \/ kh_context_new
  \/ \E text \in ParseSources : \E wild \in {"segv", "equal", "differs"} :
       ParseString(text, wild)
  \/ \E i \in 1..Len(KH_ITERATE(last.ret)) : \E wild \in {"segv", "equal", "differs"} :
       InspectAndParse(i, wild)

SpecParse == Init /\ [][NextParse]_vars

\* The host works with record types, records and methods.
NextRecords ==
  \/ kh_context_new
  \/ \E c \in 1..Len(ctxs) : \E form \in RecordPrograms : Eval(c, form)
  \/ \E c \in 1..Len(ctxs) : \E m \in HostMethods : HostMethodAdd(c, m)
  \/ \E c \in 1..Len(ctxs) : \E keys \in HostKeyLists : HostRecordNew(c, keys)
  \/ \E c \in 1..Len(ctxs) : \E n \in HostCounts : HostRecordNewFromValues(c, n)
  \/ \E c \in 1..Len(ctxs) : \E key \in HostKeys : HostRecordSet(c, key)

SpecRecords == Init /\ [][NextRecords]_vars

\* ------------------------------------------------- reading the call log
Min(xs) == CHOOSE m \in xs : \A n \in xs : m <= n
Max(xs) == CHOOSE m \in xs : \A n \in xs : m >= n

\* The events of kind k in the log of the last call.
Evs(k) == {i \in DOMAIN last.log : last.log[i].k = k}

\* The first "ret" after event i of a kh_eval of depth at most dd (0: none).
RetAbove(i, dd) ==
  LET c == {j \in Evs("ret") : j > i /\ last.log[j].d <= dd}
  IN IF c = {} THEN 0 ELSE Min(c)

\* The return of the kh_eval entered at event i (0: it never returned).
RetOf(i) == RetAbove(i, last.log[i].d)

\* The scopes on the parent chain of scope s, s included.
RECURSIVE Chain(_, _)
Chain(sc, s) == IF s = 0 THEN {} ELSE {s} \cup Chain(sc, sc[s].parent)

\* The kind of an error value (kind-symbol "message"), "" for no error.
ErrKind(err) == IF err = NULL THEN "" ELSE err.left.name
ErrMsg(err) == IF err = NULL THEN "" ELSE err.right.left.text

\* ------------------------------------------------------------------- C1
\* C1: when kh_eval returns, with a value or with none, the context's current
\* scope is the scope that was current when that kh_eval was called (also
\* when the body of a function or of a let fails).
C1_ScopeSameOnReturn ==
  (last.op = "eval" /\ dead = "") =>
    \A i \in Evs("eval") :
      RetOf(i) # 0 => last.log[RetOf(i)].scope = last.log[i].scope

\* ------------------------------------------------------------------- C2
\* C2: when an evaluation invoked during a kh_eval returns no value, the
\* enclosing kh_eval returns no value too and evaluates nothing further; so
\* let binds no name to a failed value expression and skips its body.
C2_FailurePropagates ==
  (last.op = "eval" /\ dead = "") =>
    \A j \in Evs("ret") :
      (last.log[j].val = NULL /\ last.log[j].d > 0) =>
        LET e == RetAbove(j, last.log[j].d - 1)
        IN /\ e # 0
           /\ last.log[e].val = NULL
           /\ \A k \in Evs("eval") \cup Evs("add") : ~(j < k /\ k < e)

\* ------------------------------------------------------------------- C3
\* The kh_apply entered at event i was given an argc outside [min, max].
BadArity(i) ==
  LET e == last.log[i]
  IN Len(e.argv) < e.val.min_argc \/ Len(e.argv) > e.val.max_argc

\* The return of the kh_eval through which the kh_apply entered at event i
\* returns (kh_eval and the natives hand the result of kh_apply on unchanged).
ApplyRet(i) == RetAbove(i, last.log[i].d)

\* The kh_apply entered at event i called its native function or entered its
\* body.
Ran(i) ==
  \E n \in Evs("native") \cup Evs("body") :
    i < n /\ n < ApplyRet(i) /\ last.log[n].d = last.log[i].d

\* The returns of the argument evaluations made by the kh_apply entered at i.
ArgRets(i) ==
  {j \in Evs("ret") : i < j /\ j < ApplyRet(i) /\ last.log[j].d = last.log[i].d + 1}

\* C3 as stated: kh_apply with argc < min_argc or argc > max_argc returns no
\* value, sets an error of kind invalid-call and runs neither the native
\* function nor the body.
C3_BadArityIsInvalidCall ==
  (last.op = "eval" /\ dead = "") =>
    \A i \in Evs("apply") :
      BadArity(i) =>
        /\ ApplyRet(i) # 0
        /\ last.log[ApplyRet(i)].val = NULL
        /\ ErrKind(last.log[ApplyRet(i)].err) = "invalid-call"
        /\ ~Ran(i)

\* C3 amended: kh_apply with argc outside [min_argc, max_argc] returns no
\* value and runs neither the native function nor the body; the error is of
\* kind invalid-call when no argument evaluation of this kh_apply failed,
\* and otherwise it is the error left by the failed argument evaluation.
C3_BadArityFails ==
  (last.op = "eval" /\ dead = "") =>
    \A i \in Evs("apply") :
      BadArity(i) =>
        /\ ApplyRet(i) # 0
        /\ last.log[ApplyRet(i)].val = NULL
        /\ ~Ran(i)
        /\ IF \E j \in ArgRets(i) : last.log[j].val = NULL
           THEN /\ ~last.log[i].val.is_direct
                /\ last.log[Max(ArgRets(i))].val = NULL
                /\ last.log[ApplyRet(i)].err = last.log[Max(ArgRets(i))].err
           ELSE /\ ErrKind(last.log[ApplyRet(i)].err) = "invalid-call"
                /\ ErrMsg(last.log[ApplyRet(i)].err)
                     = invalid_call_msg(last.log[i].val, Len(last.log[i].argv))

\* A Scarab function was called with too many arguments, all of which
\* evaluated, and the call failed with invalid-call.
C3_Witness ==
  /\ last.op = "eval" /\ dead = ""
  /\ \E i \in Evs("apply") :
       /\ BadArity(i)
       /\ last.log[i].val.c_func = ""
       /\ Len(last.log[i].argv) > last.log[i].val.max_argc
       /\ Cardinality(ArgRets(i)) = Len(last.log[i].argv)
       /\ ErrKind(last.log[ApplyRet(i)].err) = "invalid-call"

\* ------------------------------------------------------------------- C4
\* The p-th smallest element of a set of event indexes.
Nth(xs, p) == CHOOSE k \in xs : Cardinality({m \in xs : m <= k}) = p

\* The kh_apply that reached the native call or body entry at event n.
ApplyOf(n) ==
  Max({i \in Evs("apply") : i < n /\ last.log[i].d = last.log[n].d})

\* The argument evaluations entered by the kh_apply at event a before n.
ArgEvals(a, n) ==
  {k \in Evs("eval") : a < k /\ k < n /\ last.log[k].d = last.log[a].d + 1}

\* The kh_apply at event a was called by kh_eval for a cell form (and not by
\* a native function): the event before it is the return of the head.
FromForm(a) ==
  a > 1 /\ last.log[a - 1].k = "ret" /\ last.log[a - 1].d = last.log[a].d + 1

\* The form whose evaluation called the kh_apply at event a.
FormOf(a) ==
  last.log[Max({i \in Evs("eval") : i < a /\ last.log[i].d = last.log[a].d})].form

\* C4: when the native function or the body of a function runs, a direct
\* function has had none of its arguments evaluated and receives the forms
\* as written in the call; a non-direct function has had every argument
\* evaluated exactly once, in order, and receives the results.
C4_DirectOrEvaluatedOnce ==
  (last.op = "eval") =>
    \A n \in Evs("native") \cup Evs("body") :
      LET a == ApplyOf(n)
          argv == last.log[a].argv
          evs == ArgEvals(a, n)
      IN /\ FromForm(a) => argv = KH_ITERATE(FormOf(a).right)
         /\ IF last.log[a].val.is_direct
            THEN evs = {} /\ last.log[n].argv = argv
            ELSE /\ Cardinality(evs) = Len(argv)
                 /\ Len(last.log[n].argv) = Len(argv)
                 /\ \A p \in 1..Len(argv) :
                      /\ last.log[Nth(evs, p)].form = argv[p]
                      /\ RetOf(Nth(evs, p)) # 0 /\ RetOf(Nth(evs, p)) < n
                      /\ last.log[n].argv[p] = last.log[RetOf(Nth(evs, p))].val

\* A direct function received an unevaluated cell, and a non-direct function
\* ran after two argument evaluations one of which changed the argument.
C4_Witness ==
  /\ last.op = "eval" /\ dead = ""
  /\ \E n \in Evs("native") :
       /\ last.log[ApplyOf(n)].val.is_direct
       /\ \E p \in DOMAIN last.log[n].argv : last.log[n].argv[p].type = "cell"
  /\ \E n \in Evs("native") \cup Evs("body") :
       /\ ~last.log[ApplyOf(n)].val.is_direct
       /\ Len(last.log[n].argv) = 2
       /\ last.log[n].argv # last.log[ApplyOf(n)].argv

\* ------------------------------------------------------------------- C5
\* The variants that kh_eval returns as they are.
SelfEvaluating == {"nil", "int", "string", "func", "record-type", "record"}

\* kh_eval(ctx, kh_eval(ctx, v)) and kh_eval(ctx, v) in context c.
EvalTwice(c, v) ==
  LET r1 == kh_eval(StateOf(c, kh_nil), v, 0)
      r2 == kh_eval([r1.st EXCEPT !.log = <<>>], r1.ret, 0)
  IN [once |-> r1.ret, twice |-> r2.ret]

Binders(sc, s, name) ==
  {a \in Chain(sc, s) : name \in DOMAIN sc[a].table /\ sc[a].table[name] # NULL}

\* The binder nearest to s: no scope between s and it binds name.
Nearest(sc, s, name) ==
  CHOOSE a \in Binders(sc, s, name) :
    Binders(sc, s, name) \cap (Chain(sc, s) \ Chain(sc, a)) = {}

\* C6: kh_eval of a symbol returns the value bound to its name in the nearest
\* scope of the current scope chain; when no scope of the chain binds the
\* name it returns no value, the error is (undefined-variable "<name>"), and
\* no binding is changed.
C6_SymbolLookup ==
  (last.op = "eval") =>
    \A i \in Evs("eval") :
      last.log[i].form.type = "symbol" =>
        LET e == last.log[i]
            r == last.log[RetOf(i)]
        IN /\ RetOf(i) # 0
           /\ r.snap = e.snap
           /\ IF Binders(e.snap, e.scope, e.form.name) = {}
              THEN /\ r.val = NULL
                   /\ r.err = kh_cell_new(kh_symbol_new("undefined-variable"),
                                          kh_cell_new(kh_string_new(e.form.name), kh_nil))
              ELSE r.val = e.snap[Nearest(e.snap, e.scope, e.form.name)].table[e.form.name]

\* A symbol was evaluated where two scopes of the chain bind it and the
\* nearer one is not the outermost; and a symbol was found in a scope that is
\* not the current one.
C6_Witness ==
  /\ last.op = "eval" /\ dead = ""
  /\ \E i \in Evs("eval") :
       /\ last.log[i].form.type = "symbol"
       /\ Cardinality(Binders(last.log[i].snap, last.log[i].scope, last.log[i].form.name)) >= 2
       /\ last.log[RetOf(i)].val # NULL
  /\ \E i \in Evs("eval") :
       /\ last.log[i].form.type = "symbol"
       /\ Binders(last.log[i].snap, last.log[i].scope, last.log[i].form.name) # {}
       /\ last.log[i].scope \notin Binders(last.log[i].snap, last.log[i].scope, last.log[i].form.name)

\* A symbol that no scope of the chain binds was evaluated.
C6_WitnessUnbound ==
  /\ last.op = "eval" /\ dead = ""
  /\ \E i \in Evs("eval") :
       /\ last.log[i].form.type = "symbol"
       /\ Binders(last.log[i].snap, last.log[i].scope, last.log[i].form.name) = {}

\* ------------------------------------------------------------------- C7
\* The number of elements of a form that is a proper list.
RECURSIVE Elements(_)
Elements(form) == IF form.type = "cell" THEN 1 + Elements(form.right) ELSE 0

\* The kh_eval entered at event i is of a cell form whose head evaluated to a
\* value that is not a function (the head is the evaluation entered next).
NonFuncHead(i) ==
  /\ last.log[i].k = "eval" /\ last.log[i].form.type = "cell"
  /\ RetOf(i + 1) # 0
  /\ last.log[RetOf(i + 1)].val # NULL
  /\ last.log[RetOf(i + 1)].val.type # "func"

\* C7: for a cell form whose head evaluates to a non-function value h: a form
\* of exactly one element evaluates to h; a form of more than one element
\* gives no value and an error of kind not-func that carries inspect(h), and
\* nothing is evaluated between the return of the head and the return of the
\* form.
C7_NonFunctionHead ==
  (last.op = "eval" /\ dead = "") =>
    \A i \in Evs("eval") :
      NonFuncHead(i) =>
        LET h == RetOf(i + 1)
            r == RetOf(i)
        IN /\ r = h + 1
           /\ IF Elements(last.log[i].form) = 1
              THEN last.log[r].val = last.log[h].val
              ELSE /\ last.log[r].val = NULL
                   /\ ErrKind(last.log[r].err) = "not-func"
                   /\ ErrMsg(last.log[r].err) =
                        "Tried to evaluate " \o kh_inspect(last.log[h].val)
                          \o " as a function"

\* One evaluation met both cases: a one-element form gave its head, and a
\* longer form with a non-function head failed.
C7_Witness ==
  /\ last.op = "eval" /\ dead = ""
  /\ \E i \in Evs("eval") :
       /\ NonFuncHead(i) /\ Elements(last.log[i].form) = 1
       /\ last.log[RetOf(i)].val = last.log[RetOf(i + 1)].val
  /\ \E i \in Evs("eval") :
       /\ NonFuncHead(i) /\ Elements(last.log[i].form) > 1
       /\ ErrKind(last.log[RetOf(i)].err) = "not-func"

\* ------------------------------------------------------------------- C8
\* The names bound in some scope of heap sc, and one bound nowhere.
BoundNames(sc) == UNION {DOMAIN sc[s].table : s \in DOMAIN sc} \cup {"nope"}

\* kh_scope_lookup(s, name) is the binding of the nearest scope on the parent
\* chain of s that binds name, or none; for every scope and name of heap sc.
LookupIsNearest(sc) ==
  \A s \in DOMAIN sc : \A name \in BoundNames(sc) :
    kh_scope_lookup(sc, s, name) =
      IF Binders(sc, s, name) = {} THEN NULL
      ELSE sc[Nearest(sc, s, name)].table[name]

\* Heap new is heap old with name bound to val in the table of s and nothing
\* else changed.
OnlyTableOf(old, new, s, name, val) ==
  /\ DOMAIN new = DOMAIN old
  /\ \A t \in DOMAIN old : t # s => new[t] = old[t]
  /\ new[s].parent = old[s].parent
  /\ DOMAIN new[s].table = DOMAIN old[s].table \cup {name}
  /\ new[s].table[name] = val
  /\ \A n \in DOMAIN old[s].table : n # name => new[s].table[n] = old[s].table[n]

\* C8: kh_scope_add(s, name, v) changes only the table of s, and
\* kh_scope_lookup(s, name) returns the binding of the nearest scope on the
\* parent chain of s that binds name, or none: so a binding of scope S is
\* found from the descendants of S that do not rebind the name, and a lookup
\* from a scope whose chain does not contain S never takes its value from S.
C8_AddAndLookup ==
  /\ LookupIsNearest(scopes)
  /\ last.op = "add" =>
       OnlyTableOf(last.log[1].snap, scopes, last.log[1].scope,
                   last.log[1].fn, last.log[1].val)

\* A binding made by kh_scope_add in scope bs is found from a descendant ds
\* of bs, and is not found from a scope os outside the chain of bs (the
\* global scope of another context).
C8_Witness ==
  /\ last.op \in {"add", "push"}
  /\ \E bs \in DOMAIN scopes : \E ds \in DOMAIN scopes : \E os \in DOMAIN scopes :
       /\ bs # 1 /\ ds # bs /\ bs \in Chain(scopes, ds) /\ bs \notin Chain(scopes, os)
       /\ os # 1
       /\ "x" \in DOMAIN scopes[bs].table
       /\ kh_scope_lookup(scopes, ds, "x") = scopes[bs].table["x"]
       /\ kh_scope_lookup(scopes, os, "x") = NULL

\* ------------------------------------------------------------------- C9
\* The body entered at event b runs in a scope of its own whose parent is the
\* scope captured when the function was created.
BodyScopeIsLexical(b) ==
  /\ last.log[b].snap[last.log[b].scope].parent = last.log[ApplyOf(b)].val.scope
  /\ \A b2 \in Evs("body") : b2 # b => last.log[b2].scope # last.log[b].scope
  /\ \A e \in Evs("eval") : e < ApplyOf(b) => last.log[e].scope # last.log[b].scope

\* The scope of the body entered at event b is out of reach of the caller:
\* it is not on the chain of the scope that is current when the kh_eval that
\* made the call returns, nor of the context's scope after the call.
BodyScopeIsPrivate(b) ==
  /\ RetAbove(b, last.log[b].d) # 0 =>
       last.log[b].scope \notin
         Chain(scopes, last.log[RetAbove(b, last.log[b].d)].scope)
  /\ last.log[b].scope \notin Chain(scopes, ctxs[last.c].scope)

\* C9: a function made by def, def-direct or lambda runs its body in a fresh
\* scope whose parent is the scope current at its creation, and the bindings
\* of that scope (parameters, `=` in the body) are visible neither to the
\* caller nor to a later call.
C9_LexicalFreshScope ==
  (last.op = "eval" /\ dead = "") =>
    \A b \in Evs("body") : BodyScopeIsLexical(b) /\ BodyScopeIsPrivate(b)

\* ------------------------------------------------------------------ C10
\* The call of the native let that made its scope current at event n.
LetOf(n) ==
  Max({i \in Evs("native") : i < n /\ last.log[i].d = last.log[n].d
                             /\ last.log[i].val.c_func = "let"})

\* The bindings (name value) of that let, in source order.
LetBindings(n) == KH_ITERATE(last.log[LetOf(n)].argv[1])

\* The evaluations of its value expressions and its kh_scope_add calls.
LetEvals(n) ==
  {k \in Evs("eval") : LetOf(n) < k /\ k < n /\ last.log[k].d = last.log[n].d + 1}
LetAdds(n) ==
  {k \in Evs("add") : LetOf(n) < k /\ k < n /\ last.log[k].d = last.log[n].d}

\* The value expressions are evaluated in source order and the result of each
\* is bound under its name in the let scope before the next is evaluated.
LetInOrder(n) ==
  /\ Cardinality(LetEvals(n)) = Len(LetBindings(n))
  /\ Cardinality(LetAdds(n)) = Len(LetBindings(n))
  /\ \A p \in 1..Len(LetBindings(n)) :
       LET e == Nth(LetEvals(n), p)
           a == Nth(LetAdds(n), p)
       IN /\ last.log[e].form = LetBindings(n)[p].right.left
          /\ RetOf(e) # 0 /\ RetOf(e) < a
          /\ p < Len(LetBindings(n)) => a < Nth(LetEvals(n), p + 1)
          /\ last.log[a].scope = last.log[n].scope
          /\ last.log[a].fn = LetBindings(n)[p].left.text
          /\ last.log[a].val = last.log[RetOf(e)].val

\* The let scope is one fresh child of the scope current when let was called.
LetScopeFresh(n) ==
  /\ last.log[n].snap[last.log[n].scope].parent = last.log[LetOf(n)].scope
  /\ \A k \in 1..LetOf(n) : last.log[k].scope # last.log[n].scope

\* Each result is a value, and a binding is visible to the value expressions
\* that follow it.
LetSequential(n) ==
  \A p \in 1..Len(LetBindings(n)) :
    /\ last.log[Nth(LetAdds(n), p)].val # NULL
    /\ p > 1 => last.log[n].scope \in Chain(scopes, last.log[Nth(LetEvals(n), p)].scope)

\* The body is evaluated in the let scope with every binding visible.
LetBodySeesAll(n) ==
  /\ last.log[n + 1].k = "eval" /\ last.log[n + 1].form = last.log[LetOf(n)].argv[2]
  /\ last.log[n + 1].scope = last.log[n].scope
  /\ \A p \in 1..Len(LetBindings(n)) :
       last.log[n].scope \in
         Binders(last.log[n].snap, last.log[n].scope, LetBindings(n)[p].left.text)

\* Once the kh_eval that called let has returned, the let scope is not on the
\* chain of the current scope.
LetScopeGone(n) ==
  /\ RetAbove(n, last.log[n].d) # 0 =>
       last.log[n].scope \notin Chain(scopes, last.log[RetAbove(n, last.log[n].d)].scope)
  /\ last.log[n].scope \notin Chain(scopes, ctxs[last.c].scope)

\* C10: in (let {b1 ... bn} body) the value expressions are evaluated in
\* source order, each result is bound under its name in one fresh child scope
\* of the current scope, a binding is visible to the later value expressions
\* and to the body, the body sees all n bindings, and no binding is visible
\* once let has returned.
C10_LetOrderAndVisibility ==
  (last.op = "eval" /\ dead = "") =>
    \A n \in Evs("enter") :
      /\ LetInOrder(n) /\ LetScopeFresh(n) /\ LetSequential(n)
      /\ LetBodySeesAll(n) /\ LetScopeGone(n)

\* ------------------------------------------------------------------ C11
\* The native `=` was called at event i.
IsSet(i) == last.log[i].k = "native" /\ last.log[i].val.c_func = "set"

\* The return of the kh_eval whose form called the native function at i.
CallRet(i) == RetAbove(i, last.log[i].d)

\* C11: (= name expr) evaluates expr; when that gives a value it binds name
\* to it in the scope that is current, and in no other scope (the heap
\* differs from the heap before in that one table entry, so a binding of the
\* name in a parent scope is unchanged) and a lookup of name from the current
\* scope yields the value; when expr fails `=` returns no value and makes no
\* binding.
C11_SetBindsInCurrentScope ==
  (last.op = "eval" /\ dead = "") =>
    \A i \in Evs("native") :
      IsSet(i) =>
        LET re == RetOf(i + 1)
            r == CallRet(i)
        IN /\ last.log[i + 1].k = "eval"
           /\ last.log[i + 1].form = last.log[i].argv[2]
           /\ IF last.log[re].val = NULL
              THEN r = re + 1 /\ last.log[r].val = NULL
              ELSE /\ r = re + 2 /\ last.log[r].val = kh_nil
                   /\ last.log[re + 1].k = "add"
                   /\ last.log[re + 1].scope = last.log[r].scope
                   /\ last.log[re + 1].fn = last.log[i].argv[1].name
                   /\ last.log[re + 1].val = last.log[re].val
                   /\ r = Len(last.log) =>
                        /\ OnlyTableOf(last.log[re + 1].snap, scopes, ctxs[last.c].scope,
                                       last.log[re + 1].fn, last.log[re].val)
                        /\ Nearest(scopes, ctxs[last.c].scope, last.log[re + 1].fn)
                             = ctxs[last.c].scope

\* A top-level `=` bound, in a scope below the global one, a name that the
\* global scope binds too, to another value.
C11_Witness ==
  /\ last.op = "eval" /\ dead = "" /\ last.ret = kh_nil
  /\ \E i \in Evs("native") : IsSet(i) /\ last.log[i].d = 0
  /\ last.log[Len(last.log) - 1].k = "add"
  /\ LET name == last.log[Len(last.log) - 1].fn
         cur == ctxs[last.c].scope
     IN /\ Cardinality(Binders(scopes, cur, name) \ {1}) >= 2
        /\ \E p \in Chain(scopes, cur) \ {cur} :
             /\ p \in Binders(scopes, cur, name)
             /\ scopes[p].table[name] # scopes[cur].table[name]

\* ------------------------------------------------------------------ C12
\* Where the argument evaluations of the kh_apply entered at event a end: at
\* the call of the native function or the entry of the body, or else at the
\* return.
ArgsEnd(a) ==
  IF Ran(a)
  THEN Min({n \in Evs("native") \cup Evs("body") :
              a < n /\ last.log[n].d = last.log[a].d})
  ELSE ApplyRet(a)

\* C12: the arguments of a non-direct call are evaluated in the order they
\* are written, after the head; when the evaluation of one fails, the later
\* ones are not evaluated, the function is not called, and the call returns
\* no value with the error that the failed evaluation left.
C12_ArgsLeftToRight ==
  (last.op = "eval" /\ dead = "") =>
    \A a \in Evs("apply") :
      ~last.log[a].val.is_direct =>
        LET argv == last.log[a].argv
            evs == ArgEvals(a, ArgsEnd(a))
            n == Cardinality(evs)
        IN /\ FromForm(a) => argv = KH_ITERATE(FormOf(a).right)
           /\ n <= Len(argv)
           /\ \A p \in 1..n :
                /\ last.log[Nth(evs, p)].form = argv[p]
                /\ RetOf(Nth(evs, p)) # 0
                /\ p < n => /\ last.log[RetOf(Nth(evs, p))].val # NULL
                            /\ RetOf(Nth(evs, p)) < Nth(evs, p + 1)
           /\ IF n > 0 /\ last.log[RetOf(Nth(evs, n))].val = NULL
              THEN /\ ~Ran(a)
                   /\ ApplyRet(a) = RetOf(Nth(evs, n)) + 1
                   /\ last.log[ApplyRet(a)].val = NULL
                   /\ last.log[ApplyRet(a)].err = last.log[RetOf(Nth(evs, n))].err
              ELSE n = Len(argv)

\* A call of a non-direct function with two arguments stopped at its first
\* argument, whose evaluation failed.
C12_Witness ==
  /\ last.op = "eval" /\ dead = "" /\ last.ret = NULL
  /\ \E a \in Evs("apply") :
       /\ ~last.log[a].val.is_direct /\ FromForm(a)
       /\ Len(last.log[a].argv) = 2
       /\ Cardinality(ArgEvals(a, ArgsEnd(a))) = 1
       /\ ErrKind(last.log[ApplyRet(a)].err) = "undefined-variable"

\* ------------------------------------------------------------------ C13
ErrorKinds ==
  {"undefined-variable", "not-func", "invalid-call", "undefined-method",
   "bad-field", "bad-self", "unknown-key", "invalid-make"}

\* err is a list of exactly two elements, the symbol of a recognized kind and
\* a string.
IsErrorValue(err) ==
  /\ err.type = "cell"
  /\ err.left.type = "symbol" /\ err.left.name \in ErrorKinds
  /\ err.right.type = "cell"
  /\ err.right.left.type = "string"
  /\ err.right.right = kh_nil

\* C13: whenever kh_eval returns no value (the call of the host, or a nested
\* one), the error of the context is a list of exactly two elements: a symbol
\* naming a recognized kind, then a string.
C13_ErrorIsKindAndMessage ==
  (last.op = "eval" /\ dead = "") =>
    /\ last.ret = NULL => IsErrorValue(kh_get_error(last.c))
    /\ \A r \in Evs("ret") : last.log[r].val = NULL => IsErrorValue(last.log[r].err)

\* A failure raised two levels down came back to the host, in a context whose
\* error had been of another kind before.
C13_Witness ==
  /\ last.op = "eval" /\ dead = "" /\ last.ret = NULL
  /\ \E r \in Evs("ret") : last.log[r].d >= 2 /\ last.log[r].val = NULL
  /\ \E e \in Evs("ret") :
       /\ last.log[e].err # NULL
       /\ last.log[e].err.left.name # kh_get_error(last.c).left.name

\* ------------------------------------------------------------------ C14
\* C14: no evaluation of a parseable program ends in a failed checked cast or
\* an abort: a built-in given an argument of the wrong variant (`+` a string,
\* `first` an int, `make` a non-record-type, `get-key` a non-record or a
\* non-string key, `=` or `def` a non-symbol name) fails or is rejected
\* without aborting the process.
C14_NoFailedCast ==
  last.op = "eval" => dead # "assert"

\* ------------------------------------------------------------------ C18
DistinctKeys(rtype) ==
  \A i, j \in 1..Len(rtype.keys) : rtype.keys[i] = rtype.keys[j] => i = j

\* The record types bound in some scope of the heap.
BoundRecordTypes ==
  {scopes[s].table[n] : <<s, n>> \in
     {p \in (1..Len(scopes)) \X UNION {DOMAIN scopes[s].table : s \in 1..Len(scopes)} :
        /\ p[2] \in DOMAIN scopes[p[1]].table
        /\ scopes[p[1]].table[p[2]].type = "record-type"}}

\* C18: every record type that exists has pairwise distinct key names: no
\* call of record-type or kh_record_type_new yields a type in which one key
\* name occurs at two positions.
C18_KeyNamesDistinct ==
  \A rtype \in BoundRecordTypes : DistinctKeys(rtype)

\* ------------------------------------------------------------------ C16
IsNative(i, cf) == last.log[i].k = "native" /\ last.log[i].val.c_func = cf

\* C16: make(T, v1, ..., vn) with n the number of keys of T gives a record,
\* and get-key on a record made so returns vi for the key at every position
\* i of T; get-key with a name that is no key of T returns no value, the
\* error being unknown-key.
C16_MakeThenGetKey ==
  (last.op = "eval" /\ dead = "") =>
    /\ \A i \in Evs("native") :
         (/\ IsNative(i, "make")
          /\ last.log[i].argv[1].type = "record-type"
          /\ Len(last.log[i].argv) - 1 = Len(last.log[i].argv[1].keys)) =>
           LET rec == last.log[CallRet(i)].val
           IN /\ rec # NULL /\ rec.type = "record" /\ rec.rtype = last.log[i].argv[1]
              /\ \A p \in 1..Len(rec.rtype.keys) : rec.values[p] = last.log[i].argv[p + 1]
    /\ \A i \in Evs("native") :
         IsNative(i, "get_key") =>
           LET rec == last.log[RetOf(i + 1)].val
               key == last.log[i].argv[2].text
               r == CallRet(i)
           IN rec # NULL =>
                /\ \A p \in 1..Len(rec.rtype.keys) :
                     rec.rtype.keys[p] = key => last.log[r].val = rec.values[p]
                /\ (\A p \in 1..Len(rec.rtype.keys) : rec.rtype.keys[p] # key) =>
                     /\ last.log[r].val = NULL
                     /\ ErrKind(last.log[r].err) = "unknown-key"

\* ------------------------------------------------------------------ C17
\* The record holds one value for each key of its type.
Complete(record) == DOMAIN record.values = 1..Len(record.rtype.keys)

\* The records that the last call returned, at any depth.
RecordsReturned ==
  {v \in {last.ret} \cup {last.log[i].val : i \in Evs("ret")} : v.type = "record"}

\* C17: every record holds exactly as many values as its type has keys;
\* make with another number of values than keys returns no value, the error
\* being invalid-make, and makes no record; kh_record_new and
\* kh_record_new_from_values give nil to every key that was not supplied;
\* kh_record_set with an unknown key returns false and changes no value.
C17_RecordsComplete ==
  /\ dead = "" => \A record \in RecordsReturned : Complete(record)
  /\ (last.op = "eval" /\ dead = "") =>
       \A i \in Evs("native") :
         (IsNative(i, "make") /\ last.log[i].argv[1].type = "record-type") =>
           LET r == CallRet(i)
           IN IF Len(last.log[i].argv) - 1 # Len(last.log[i].argv[1].keys)
              THEN /\ r = i + 1
                   /\ last.log[r].val = NULL
                   /\ ErrKind(last.log[r].err) = "invalid-make"
              ELSE last.log[r].val.type = "record"
  /\ last.op = "record_new" =>
       LET ev == last.log[1]
           n == Len(ev.argv) \div 2
           supplied == {ev.argv[j].text : j \in 1..n}
       IN \A p \in 1..Len(ev.val.keys) :
            ev.val.keys[p] \notin supplied => last.ret.values[p] = kh_nil
  /\ last.op = "record_from_values" =>
       LET ev == last.log[1]
       IN \A p \in 1..Len(ev.val.keys) :
            last.ret.values[p] = IF p <= Len(ev.argv) THEN ev.argv[p] ELSE kh_nil
  /\ last.op = "record_set" =>
       LET ev == last.log[1]
       IN (\A p \in 1..Len(ev.form.rtype.keys) : ev.form.rtype.keys[p] # ev.fn) =>
            last.out = <<"FALSE">> /\ last.ret = ev.form

\* kh_record_set was called with a key the type does not have, on a record
\* made with a key left to nil that an earlier kh_record_set had changed.
C17_Witness ==
  /\ last.op = "record_set" /\ dead = ""
  /\ last.out = <<"FALSE">>
  /\ \E p \in 1..Len(last.ret.values) : last.ret.values[p] = kh_int_new(9)
  /\ \E p \in 1..Len(last.ret.values) : last.ret.values[p] = kh_nil

\* ------------------------------------------------------------------ C19
\* The method table of context c holds, under some type and the name, a
\* function with the parameters and the body written in the def-method call
\* of argv.
Registered(c, argv) ==
  \E key \in DOMAIN ctxs[c].methods :
    /\ key[2] = argv[2].name
    /\ ctxs[c].methods[key].form = argv[4]
    /\ ctxs[c].methods[key].argnames = _extract_symbol_list(argv[3]).strings

\* C19: def-method takes exactly 4 unevaluated arguments (type, name,
\* params, body): a call with 4 arguments does not fail with invalid-call,
\* and when its type expression gives a value a function with these
\* parameters and this body is in the method table of the context under
\* (type value, name) afterwards, and in that of no other context.
C19_DefMethodRegisters ==
  (last.op = "eval" /\ dead = "") =>
    \A a \in Evs("apply") :
      (last.log[a].val.c_func = "def_method" /\ Len(last.log[a].argv) = 4) =>
        LET r == RetAbove(a, last.log[a].d)
        IN /\ ~(last.log[r].val = NULL /\ ErrKind(last.log[r].err) = "invalid-call")
           /\ last.log[r].val # NULL =>
                /\ Registered(last.c, last.log[a].argv)
                /\ \A c \in 1..Len(ctxs) : c # last.c => ~Registered(c, last.log[a].argv)

\* ------------------------------------------------------------------ C20
\* C20: (@ self name a1 ... an) evaluates self once; with its value v it
\* looks up the method under (type of v, name); when there is none it
\* returns no value at once, the error being undefined-method, so that no
\* body and none of a1 ... an is evaluated; otherwise it applies the method
\* to n + 1 arguments, first v wrapped so that evaluating the argument gives
\* v itself without evaluating v (also when v is a symbol or a cell), then
\* a1 ... an as written, which kh_apply evaluates in order.
C20_CallMethod ==
  (last.op = "eval" /\ dead = "") =>
    \A i \in Evs("native") :
      IsNative(i, "call_method") =>
        LET argv == last.log[i].argv
            re == RetOf(i + 1)
            self == last.log[re].val
            r == CallRet(i)
        IN /\ last.log[i + 1].k = "eval" /\ last.log[i + 1].form = argv[1]
           /\ self = NULL => r = re + 1 /\ last.log[r].val = NULL
           /\ self # NULL =>
                LET lk == last.log[re + 1]
                    key == <<KH_VALUE_TYPE(self), argv[2].name>>
                    ap == last.log[re + 2]
                IN /\ lk.k = "lookup" /\ lk.argv = <<key[1]>> /\ lk.fn = key[2]
                   /\ lk.val = IF key \in DOMAIN lk.snap THEN lk.snap[key] ELSE NULL
                   /\ IF lk.val = NULL
                      THEN /\ r = re + 2 /\ last.log[r].val = NULL
                           /\ ErrKind(last.log[r].err) = "undefined-method"
                      ELSE /\ ap.k = "apply" /\ ap.val = lk.val
                           /\ ap.argv = <<kh_quoted_new(self)>> \o SubSeq(argv, 3, Len(argv))
                           /\ ~ap.val.is_direct =>
                                /\ last.log[re + 3].k = "eval"
                                /\ last.log[re + 3].form = kh_quoted_new(self)
                                /\ last.log[re + 4].k = "ret"
                                /\ last.log[re + 4].val = self

\* A method was called on a self expression whose value is a symbol, resp.
\* a cell, and with a further argument.
C20_Witness ==
  /\ last.op = "eval" /\ dead = "" /\ last.ret # NULL
  /\ \E i \in Evs("native") :
       /\ IsNative(i, "call_method")
       /\ last.log[RetOf(i + 1)].val.type \in {"symbol", "cell"}
       /\ last.log[RetOf(i + 1) + 2].k = "apply"

\* ------------------------------------------------------------------ C15
\* The name of the symbol at address a.
NameOf(a) == interned[symbols[a].value]

C30_ValueKeepsError ==
  (last.op = "eval" /\ dead = "" /\ last.ret # NULL) =>
    kh_get_error(last.c) = last.err0

\* ------------------------------------------------------------------ C26
\* C26: after any sequence of kh_context_new and kh_eval calls the builtins
\* scope (address 1) holds exactly the bindings of _register_builtins: it is
\* the only scope without a parent, it is the parent of the global scope of
\* every context, it is never the current scope (of a context, or at any
\* step of an evaluation) and no kh_scope_add of a program targets it.
C26_BuiltinsScopeFixed ==
  core_init_done =>
    /\ scopes[1] = [parent |-> 0, table |-> _register_builtins]
    /\ \A s \in 2..Len(scopes) : scopes[s].parent # 0
    /\ \A c \in 1..Len(ctxs) :
         /\ scopes[ctxs[c].global_scope].parent = 1
         /\ ctxs[c].scope # 1
    /\ \A i \in DOMAIN last.log : last.log[i].scope # 1

\* Two contexts exist; one has bound the name of a builtin in its global
\* scope, and a failed call has left a nested scope current in it.
C26_Witness ==
  /\ Len(ctxs) = 2 /\ last.op = "eval" /\ dead = ""
  /\ "+" \in DOMAIN scopes[ctxs[last.c].global_scope].table
  /\ ctxs[last.c].scope # ctxs[last.c].global_scope
  /\ Evs("add") # {}

\* ------------------------------------------------------------------ C27
RECURSIVE SumOf(_)
SumOf(argv) == IF argv = <<>> THEN 0 ELSE Head(argv).value + SumOf(Tail(argv))

FitsLong(x) == -LONG_MAX - 1 <= x /\ x <= LONG_MAX

\* C27: `+` applied to integers x1..xn (n >= 1) returns the int whose value is
\* the mathematical sum x1 + ... + xn whenever every argument and the sum fit
\* in a `long`; operands and sums beyond the range of `int` are not truncated
\* or wrapped.
C27_AddIsSum ==
  (last.op = "eval" /\ dead = "") =>
    \A i \in Evs("native") :
      (/\ IsNative(i, "add")
       /\ \A j \in 1..Len(last.log[i].argv) :
            last.log[i].argv[j].type = "int" /\ FitsLong(last.log[i].argv[j].value)
       /\ FitsLong(SumOf(last.log[i].argv))) =>
        last.log[CallRet(i)].val = kh_int_new(SumOf(last.log[i].argv))

\* ---------------------------------------------------------------- C28
\* The number of cells on the `right` chain of the list at p.
RECURSIVE CountCells(_, _)
CountCells(heap, p) ==
  IF KH_IS_CELL(p) THEN 1 + CountCells(heap, heap[p.addr].right) ELSE 0

\* C28: kh_list_length of nil or of a cell returns the number of cells on
\* the `right` chain of its argument, a dotted list included, and fails no
\* assertion.
C28_LengthCountsCells ==
  (last.op = "length" /\ (KH_IS_NIL(last.form) \/ KH_IS_CELL(last.form)))
    => /\ dead = ""
       /\ last.ret = kh_int_new(CountCells(cells, last.form))

\* ---------------------------------------------------------------- C29
\* The list at p ends in nil.
RECURSIVE IsProper(_, _)
IsProper(heap, p) ==
  IF KH_IS_CELL(p) THEN IsProper(heap, heap[p.addr].right) ELSE KH_IS_NIL(p)

\* The `left` fields along the `right` chain of the list at p.
RECURSIVE LeftsOf(_, _)
LeftsOf(heap, p) ==
  IF KH_IS_CELL(p) THEN <<heap[p.addr].left>> \o LeftsOf(heap, heap[p.addr].right)
  ELSE <<>>

ListCalls(op) ==
  {ev \in {last.log[i] : i \in 1..Len(last.log)} :
     ev.k = op /\ last.op = op /\ IsProper(ev.snap, ev.form)}

\* C29: kh_list_append on a proper list returns the elements of the list
\* followed by the value; on a cell it returns that cell and changes only the
\* `right` of the last cell of the list, on nil it returns a fresh one-cell
\* list.  kh_list_prepend returns a fresh cell (value, list) and changes no
\* cell that existed.
C29_AppendPrepend ==
  /\ \A ev \in ListCalls("append") :
       /\ dead = "" /\ last.ret # NULL
       /\ LeftsOf(cells, last.ret) = LeftsOf(ev.snap, ev.form) \o <<ev.val>>
       /\ Len(cells) = Len(ev.snap) + 1
       /\ IF KH_IS_CELL(ev.form)
          THEN /\ last.ret = ev.form
               /\ \A a \in 1..Len(ev.snap) :
                    /\ cells[a].left = ev.snap[a].left
                    /\ a # TailOf(ev.snap, ev.form.addr) => cells[a] = ev.snap[a]
          ELSE /\ last.ret = CellPtr(Len(cells))
               /\ SubSeq(cells, 1, Len(ev.snap)) = ev.snap
  /\ \A ev \in ListCalls("prepend") :
       /\ dead = ""
       /\ last.ret = CellPtr(Len(ev.snap) + 1)
       /\ cells = Append(ev.snap, [left |-> ev.val, right |-> ev.form])

\* An append to a list of two cells or more: the last cell, which is not the
\* head, now points at the new cell.
C29_Witness ==
  \E ev \in ListCalls("append") :
    /\ KH_IS_CELL(ev.form) /\ Len(LeftsOf(ev.snap, ev.form)) >= 2
    /\ TailOf(ev.snap, ev.form.addr) # ev.form.addr
    /\ cells[TailOf(ev.snap, ev.form.addr)].right = CellPtr(Len(cells))
    /\ Len(LeftsOf(cells, last.ret)) >= 3

\* ---------------------------------------------------------------- C23
\* The call of kh_tokenizer_next that last.log holds, when it began a token
\* at a `#`.
CommentCalls ==
  {res \in {last.log[i] : i \in 1..Len(last.log)} :
     /\ last.op = "token" /\ res.start <= Len(tokenizer.text)
     /\ SubSeq(tokenizer.text, res.start, res.start) = "#"}

\* The offset of the first newline at or after offset i, or of the end.
RECURSIVE LineEnd(_, _)
LineEnd(text, i) ==
  IF i > Len(text) \/ SubSeq(text, i, i) = "\n" THEN i ELSE LineEnd(text, i + 1)

\* C23: kh_tokenizer_next at a `#` fails no assertion, returns one
\* newline token and has consumed the input up to and including the next
\* newline, or all of it when there is none.
C23_CommentIsOneNewline ==
  \A res \in CommentCalls :
    /\ dead = ""
    /\ last.ret # NULL /\ last.ret.type = "\n"
    /\ (IF tokenizer.peek_avail /\ tokenizer.peeked # EOF THEN tokenizer.pos - 1
        ELSE tokenizer.pos) = Min({LineEnd(tokenizer.text, res.start) + 1,
                                    Len(tokenizer.text) + 1})

\* ---------------------------------------------------------------- C24
LineOf(text, i) == 1 + Cardinality({j \in 1..(i - 1) : SubSeq(text, j, j) = "\n"})
ColOf(text, i) == i - Max({0} \cup {j \in 1..(i - 1) : SubSeq(text, j, j) = "\n"})

\* C24: every token returned carries the 1-based line and column of its
\* first character, for string input and for file input.
C24_TokenPosition ==
  (last.op = "token" /\ last.ret # NULL)
    => /\ last.ret.line = LineOf(tokenizer.text, last.ret.start)
       /\ last.ret.col = ColOf(tokenizer.text, last.ret.start)

\* ------------------------------------------------ parsing: C21, C22, C25
\* The tokens of a text up to its end, NULL in the place where the
\* tokenizer fails.
RECURSIVE TokenList(_)
TokenList(tk) ==
  LET res == kh_tokenizer_next(tk)
  IN IF res.t.died \/ ~res.ok THEN <<NULL>>
     ELSE IF res.token.type = "T_EOF" THEN <<>>
     ELSE <<res.token>> \o TokenList(res.t)

TokensOf(text) == TokenList(NewTokenizer(text, TRUE))

IsAtomToken(tok) ==
  \/ tok.type \in {"T_IDENTIFIER", "T_STRING"}
  \/ tok.type = "T_NUMBER" /\ strtol(tok.val) <= LONG_MAX /\ strtol(tok.val) >= 0 - LONG_MAX - 1
IsSeparator(tok) == tok.type \in {",", "\n"}
IsCloser(tok) == tok.type \in {")", "]", "}"}

\* The value an atom token stands for.
AtomOf(tok) ==
  CASE tok.type = "T_NUMBER" -> kh_int_new(strtol(tok.val))
    [] tok.type = "T_STRING" -> kh_string_new(tok.val)
    [] tok.type = "T_IDENTIFIER" /\ tok.val = "nil" -> kh_nil
    [] OTHER -> kh_symbol_new(tok.val)

NotNewline(tok) == tok.type # "\n"

\* The parse call that last holds.
Parsed == last.op = "parse" /\ dead = ""
ParsedText == last.out[1]
ParseError == last.log[1].err

\* ---------------------------------------------------------------- C21
\* The tokens between `[` and `]` of a text that is one operator list of
\* atoms v1 op v2 ... op vn, n >= 2, newlines dropped; <<>> for other texts.
OperatorBody(text) ==
  LET ts == TokensOf(text)
      inner == IF Len(ts) >= 2 /\ NULL \notin {ts[i] : i \in 1..Len(ts)}
               THEN SelectSeq(SubSeq(ts, 2, Len(ts) - 1), NotNewline) ELSE <<>>
  IN IF /\ Len(inner) >= 3 /\ Len(inner) % 2 = 1
        /\ ts[1].type = "[" /\ ts[Len(ts)].type = "]"
        /\ \A i \in 1..Len(inner) : IsAtomToken(inner[i])
        /\ \A i \in 1..Len(inner) : i % 2 = 0 => inner[i].type = "T_IDENTIFIER"
     THEN inner ELSE <<>>

OperandsOf(inner) == [i \in 1..((Len(inner) + 1) \div 2) |-> AtomOf(inner[2 * i - 1])]
SameOperator(inner) == \A i \in 1..Len(inner) : i % 2 = 0 => inner[i].val = inner[2].val

\* C21: an operator list [v1 op v2 ... op vn] with the same identifier at
\* every separator parses to the list (op v1 ... vn); with a later separator
\* that differs from the first the parse fails with MALFORMED and the message
\* "Non-matching operator".
C21_OperatorList ==
  (last.op = "parse" /\ OperatorBody(ParsedText) # <<>>)
    => LET inner == OperatorBody(ParsedText)
       IN IF SameOperator(inner)
          THEN /\ dead = ""
               /\ last.ret = L(<<L(<<L(<<AtomOf(inner[2])>> \o OperandsOf(inner))>>)>>)
          ELSE /\ dead = ""
               /\ last.ret = NULL
               /\ ParseError # NULL /\ ParseError.code = "MALFORMED"
               /\ SubSeq(ParseError.msg, 1, 21) = "Non-matching operator"

\* ---------------------------------------------------------------- C22
\* The statements of a sequence of atoms and separators: the runs of atoms
\* between separators, empty runs left out.
RECURSIVE SplitStatements(_, _)
SplitStatements(ts, run) ==
  IF ts = <<>> THEN (IF run = <<>> THEN <<>> ELSE <<run>>)
  ELSE IF IsSeparator(Head(ts))
  THEN (IF run = <<>> THEN <<>> ELSE <<run>>) \o SplitStatements(Tail(ts), <<>>)
  ELSE SplitStatements(Tail(ts), Append(run, Head(ts)))

StatementsOf(ts) ==
  LET runs == SplitStatements(ts, <<>>)
  IN L([i \in 1..Len(runs) |-> L([j \in 1..Len(runs[i]) |-> AtomOf(runs[i][j])])])

IsFlat(ts) == \A i \in 1..Len(ts) : ts[i] # NULL /\ (IsAtomToken(ts[i]) \/ IsSeparator(ts[i]))

\* The first token of ts that is neither an atom nor a separator, NULL when
\* there is none.
RECURSIVE FirstOther(_)
FirstOther(ts) ==
  IF ts = <<>> THEN NULL
  ELSE IF Head(ts) # NULL /\ (IsAtomToken(Head(ts)) \/ IsSeparator(Head(ts)))
  THEN FirstOther(Tail(ts))
  ELSE Head(ts)

Malformed == last.ret = NULL /\ ParseError # NULL /\ ParseError.code = "MALFORMED"

\* C22: the top level and a `{ }` body of atoms and separators parse to
\* the list of their non-empty statements in order, each the list of its
\* values; `{}` and `()` parse to nil; a closing token that is not the
\* terminator of the open list, or the end of the text inside `{ }`, fails the
\* parse with MALFORMED.
C22_OpenList ==
  Parsed =>
    LET ts == TokensOf(ParsedText)
        inner == SubSeq(ts, 2, Len(ts) - 1)
        opened == SubSeq(ts, 2, Len(ts))
    IN /\ IsFlat(ts) => last.ret = StatementsOf(ts)
       /\ (Len(ts) >= 2 /\ ts[1].type = "{" /\ ts[Len(ts)].type = "}" /\ IsFlat(inner))
            => last.ret = L(<<L(<<StatementsOf(inner)>>)>>)
       /\ (Len(ts) = 2 /\ ts[1].type = "(" /\ ts[2].type = ")")
            => last.ret = L(<<L(<<kh_nil>>)>>)
       /\ (FirstOther(ts) # NULL /\ IsCloser(FirstOther(ts))) => Malformed
       /\ (Len(ts) >= 1 /\ ts[1].type = "{"
             /\ (FirstOther(opened) = NULL \/ FirstOther(opened).type \in {")", "]"}))
            => Malformed

\* A parse of atoms and separators with two statements or more, one of
\* them of two values or more, and with two separators in a row.
C22_Witness ==
  /\ Parsed /\ last.ret # NULL
  /\ LET ts == TokensOf(ParsedText)
     IN /\ IsFlat(ts)
        /\ Len(SplitStatements(ts, <<>>)) >= 2
        /\ \E i \in 1..Len(SplitStatements(ts, <<>>)) : Len(SplitStatements(ts, <<>>)[i]) >= 2
        /\ \E i \in 1..(Len(ts) - 1) : IsSeparator(ts[i]) /\ IsSeparator(ts[i + 1])

\* ---------------------------------------------------------------- C25
\* A value with the text of every string in it left out.
RECURSIVE Unstrung(_)
Unstrung(val) ==
  CASE val.type = "string" -> kh_string_new("")
    [] val.type = "cell" -> kh_cell_new(Unstrung(val.left), Unstrung(val.right))
    [] val.type = "quoted" -> kh_quoted_new(Unstrung(val.quoted))
    [] OTHER -> val

\* The value that the text of last.out parsed to, when it parsed to one
\* statement of one value.
Reparsed ==
  IF /\ last.ret # NULL /\ KH_IS_CELL(last.ret) /\ KH_IS_NIL(last.ret.right)
     /\ KH_IS_CELL(last.ret.left) /\ KH_IS_NIL(last.ret.left.right)
  THEN last.ret.left.left ELSE NULL

\* C25: the text kh_inspect gives for a parsed form parses to a value equal
\* to the form in variant and structure, the texts of strings aside, and
\* kh_inspect of that value is the same text.
C25_InspectRoundTrip ==
  last.op = "reparse"
    => /\ dead = ""
       /\ Reparsed # NULL
       /\ Unstrung(Reparsed) = Unstrung(last.form)
       /\ kh_inspect(Reparsed) = last.out[1]

====
